---- MODULE Spec2Model ----
(***************************************************************************)
(* captcha-protect: the cooperative file lock (internal/filelock) and the  *)
(* rate / verification engine of the middleware (main.go).                 *)
(*                                                                         *)
(* Part I models filelock.go: several FileLock values, one per process,    *)
(* contending for the marker file <target>.lock.  Every system call of     *)
(* Lock() (OpenFile, Stat, Remove, Sleep) is a separate step, so that the  *)
(* interleavings between acquirers are the ones the operating system       *)
(* allows.                                                                 *)
(***************************************************************************)
EXTENDS Integers, Sequences, FiniteSets, TLC

(***************************************************************************)
(* Bounds and program constants of the file lock.                          *)
(***************************************************************************)
\* filelock.go:39 sets maxRetries := 300; the model runs the same loop with a
\* scaled-down budget (a bound of the model, every check is repeated with it
\* raised).
maxRetries == 3

\* filelock.go:96: a marker is stale when time.Since(ModTime) > 5*time.Minute.
\* The clock of Part I counts whole minutes.
StaleMinutes == 5

\* Ages beyond the threshold are indistinguishable for the code: the age of the
\* marker saturates one minute past it.
MaxAge == StaleMinutes + 1

\* The processes that own a FileLock on the target path.
Procs == {1, 2, 3}

\* The two FileLocks of the pairwise scenarios (TestFileLock_ConcurrentLocking).
Pair == {1, 2}

\* The marker file: pid -1 stands for "no such file", pid 0 for a marker left
\* behind by a process that is gone (the content is advisory, never parsed).
NoFile == [pid |-> -1, age |-> 0]

\* What the last step returned to its caller: NoEv after a step that returns
\* nothing.  was: FileLock.acquired when the call began; stole: the call
\* removed a marker older than 5 minutes.
NoEv == [p |-> 0, op |-> "step", res |-> "-", was |-> FALSE, stole |-> FALSE]

Ev(p, op, res, was, stole) ==
    [p |-> p, op |-> op, res |-> res, was |-> was, stole |-> stole]

\* The ghosts of one Lock() call (history, read by the properties only):
\*   since      who has held the lock ever since this call began
\*   quiet      the call began on a marker older than 5 minutes and no other
\*              process has changed the marker since
\*   onlyFresh  every attempt of the call so far met a fresh marker
\*   stole      the call removed a marker older than 5 minutes
NoCall == [since |-> {}, quiet |-> FALSE, onlyFresh |-> FALSE, stole |-> FALSE]

VARIABLES
    persist,    \* Config.PersistentStateFile is set
    onPage,     \* ChallengeOnPage(): the challenge is shown on the tripped page
    rateCache,  \* subnet -> request count, with the ticks the entry has left
    botCache,   \* client address -> good-bot verdict
    verifiedCache, \* client address -> true
    stateChanged,  \* signals pending in the channel of depth 1
    sinceReload,   \* ticks since lastStateReload, saturating at ReloadTicks
    disk,       \* the content of the state file
    regs,       \* ghost: requests registered for a subnet since it had no counter
    out         \* the request served in the last step and its response

httpVars == <<persist, onPage, rateCache, botCache, verifiedCache, stateChanged,
              sinceReload, disk, regs, out>>

VARIABLES
    active,     \* the processes taking part in this run
    marker,     \* the marker file <target>.lock: NoFile, or who created it and its age
    acquired,   \* FileLock.acquired of each process
    pc,         \* where each process is inside Lock(): idle, open, stat, remove, sleep
    i,          \* the loop index of Lock()
    g,          \* the ghosts of each process's Lock() call in progress
    aged,       \* ghost: the marker of this holder has been older than 5 minutes
    ev          \* the call that returned in the last step, and its result

lockVars == <<active, marker, acquired, pc, i, g, aged, ev>>

VARIABLES
    applied     \* a function looked at on its own: its arguments and its result

\* No function is looked at on its own.
NotApplied == [fn |-> "-"]

VARIABLES
    saver       \* the save of each process: where it is, what it read, what it holds

VARIABLES
    task        \* the goroutine saveStateOnChange: where it is, and the context

\* No goroutine saves on change (main.go:273 is not reached).
NoTask == [pc |-> "off", cancelled |-> FALSE, pending |-> 0, after |-> 0,
           unsaved |-> "no"]

VARIABLES
    sync        \* stateMutex, lastStateReload, the clock and the goroutines of one
                \* process that use them

\* No goroutine is looked at.
NoSync == [mutex |-> 0, last |-> 0, clock |-> 0, th |-> <<>>, stamps |-> <<>>]

vars == <<lockVars, httpVars, applied, saver, task, sync>>

Exists(m) == m.pid # -1

\* filelock.go:89-97.  os.Stat fails when the marker is gone, and the code then
\* answers true.
isStale(m) == IF ~Exists(m) THEN TRUE ELSE m.age > StaleMinutes

\* The ghosts' own reading of the clock: the marker is there and older than
\* 5 minutes.
Old(m) == Exists(m) /\ m.age > StaleMinutes

\* filelock.go:42 and :112: os.OpenFile(O_CREATE|O_EXCL) creates the marker,
\* stamped now, with the caller's pid in it.
NewMarker(p) == [pid |-> p, age |-> 0]

\* Ghost updates.  Process p changed the marker: only p's own call stays quiet.
Disturbed(gg, p) ==
    [q \in Procs |-> IF q = p THEN gg[q] ELSE [gg[q] EXCEPT !.quiet = FALSE]]

\* Process p gave the lock up: it no longer holds "ever since" for anybody.
Released(gg, p) ==
    [q \in Procs |-> [gg[q] EXCEPT !.since = gg[q].since \ {p}]]

\* The call of p is over.
Cleared(gg, p) == [gg EXCEPT ![p] = NoCall]

\* A call of p returns res: the FileLock is at rest again.
Return(p, op, res, stole) ==
    /\ pc' = [pc EXCEPT ![p] = "idle"]
    /\ i' = [i EXCEPT ![p] = 0]
    /\ ev' = Ev(p, op, res, FALSE, stole)

\* Mutant of Budget: the loop condition written i <= maxRetries.
Budget_OffByOne(p) == i[p] + 1 <= maxRetries

\* filelock.go:40: the loop condition i < maxRetries after i++.
Budget(p) == i[p] + 1 < maxRetries

\* filelock.go:40 and :69: the next iteration of the retry loop, or the timeout
\* error once the budget is spent.
NextAttempt(p) ==
    IF Budget(p)
    THEN /\ pc' = [pc EXCEPT ![p] = "open"]
         /\ i' = [i EXCEPT ![p] = i[p] + 1]
         /\ ev' = NoEv
    ELSE Return(p, "Lock", "timeout", g[p].stole)

\* filelock.go:27-36: Lock() refuses a FileLock that already holds the lock,
\* creates the directory and enters the retry loop.
Lock_Enter(p) ==
    /\ pc[p] = "idle"
    /\ IF acquired[p]
       THEN /\ ev' = Ev(p, "Lock", "already", TRUE, FALSE)
            /\ UNCHANGED <<active, marker, acquired, pc, i, g, aged>>
       ELSE \E dirOK \in BOOLEAN :
              IF ~dirOK
              THEN /\ ev' = Ev(p, "Lock", "mkdirfail", FALSE, FALSE)
                   /\ UNCHANGED <<active, marker, acquired, pc, i, g, aged>>
              ELSE /\ pc' = [pc EXCEPT ![p] = "open"]
                   /\ i' = [i EXCEPT ![p] = 0]
                   /\ g' = [g EXCEPT ![p] =
                              [since |-> {q \in Procs \ {p} : acquired[q]},
                               quiet |-> Old(marker),
                               onlyFresh |-> TRUE,
                               stole |-> FALSE]]
                   /\ ev' = NoEv
                   /\ UNCHANGED <<active, marker, acquired, aged>>

\* filelock.go:42-55: one exclusive-create attempt.  It succeeds when no marker
\* exists, fails with "exists" when one does, and may fail for another reason
\* (permissions), which Lock() reports at once.
Lock_OpenFile(p) ==
    /\ pc[p] = "open"
    /\ \E fsOK \in BOOLEAN :
         IF ~fsOK
         THEN /\ Return(p, "Lock", "createfail", g[p].stole)
              /\ g' = Cleared(g, p)
              /\ UNCHANGED <<active, marker, acquired, aged>>
         ELSE IF ~Exists(marker)
         THEN /\ marker' = NewMarker(p)
              /\ acquired' = [acquired EXCEPT ![p] = TRUE]
              /\ Return(p, "Lock", "ok", g[p].stole)
              /\ g' = Cleared(Disturbed(g, p), p)
              /\ aged' = [aged EXCEPT ![p] = FALSE]
              /\ UNCHANGED active
         ELSE /\ pc' = [pc EXCEPT ![p] = "stat"]
              /\ ev' = NoEv
              /\ UNCHANGED <<active, marker, acquired, i, g, aged>>

\* filelock.go:58 and :89-97: the staleness test, a separate system call.
Lock_Stat(p) ==
    /\ pc[p] = "stat"
    /\ IF isStale(marker)
       THEN /\ pc' = [pc EXCEPT ![p] = "remove"]
            /\ g' = [g EXCEPT ![p].onlyFresh = FALSE]
       ELSE /\ pc' = [pc EXCEPT ![p] = "sleep"]
            /\ UNCHANGED g
    /\ ev' = NoEv
    /\ UNCHANGED <<active, marker, acquired, i, aged>>

\* Mutant of AfterRemove: the continue is missing, the loop sleeps first.
AfterRemove_Sleeps(p) ==
    /\ pc' = [pc EXCEPT ![p] = "sleep"]
    /\ ev' = NoEv
    /\ UNCHANGED i

\* filelock.go:61: continue, the next iteration starts at once.
AfterRemove(p) == NextAttempt(p)

\* filelock.go:60-62: os.Remove of whatever marker is there now; on success the
\* loop continues without sleeping, on failure it falls through to the sleep.
Lock_Remove(p) ==
    /\ pc[p] = "remove"
    /\ IF Exists(marker)
       THEN /\ marker' = NoFile
            /\ AfterRemove(p)
            /\ LET gg == Disturbed([g EXCEPT ![p].stole = g[p].stole \/ Old(marker)], p)
               IN  g' = IF Budget(p) THEN gg ELSE Cleared(gg, p)
            /\ UNCHANGED <<active, acquired, aged>>
       ELSE /\ pc' = [pc EXCEPT ![p] = "sleep"]
            /\ ev' = NoEv
            /\ UNCHANGED <<active, marker, acquired, i, g, aged>>

\* filelock.go:66: time.Sleep(100ms), then the next iteration.
Lock_Sleep(p) ==
    /\ pc[p] = "sleep"
    /\ NextAttempt(p)
    /\ g' = IF Budget(p) THEN g ELSE Cleared(g, p)
    /\ UNCHANGED <<active, marker, acquired, aged>>

\* Mutant of HoldsLock: Unlock() without the acquired guard.
HoldsLock_Unguarded(p) == TRUE

\* filelock.go:74: Unlock() has something to release only when acquired is set.
HoldsLock(p) == acquired[p]

\* filelock.go:73-85: Unlock() does nothing on a FileLock that does not hold the
\* lock; otherwise it removes whatever marker is at the path ("not exist" is
\* not an error) and clears acquired.
Unlock(p) ==
    /\ pc[p] = "idle"
    /\ ev' = Ev(p, "Unlock", "nil", acquired[p], FALSE)
    /\ IF ~HoldsLock(p)
       THEN UNCHANGED <<active, marker, acquired, pc, i, g, aged>>
       ELSE /\ marker' = NoFile
            /\ acquired' = [acquired EXCEPT ![p] = FALSE]
            /\ g' = Released(IF Exists(marker) THEN Disturbed(g, p) ELSE g, p)
            /\ aged' = [aged EXCEPT ![p] = FALSE]
            /\ UNCHANGED <<active, pc, i>>

\* filelock.go:100-125: TryLock(), one attempt and no waiting.
TryLock(p) ==
    /\ pc[p] = "idle"
    /\ IF acquired[p]
       THEN /\ ev' = Ev(p, "TryLock", "already", TRUE, FALSE)
            /\ UNCHANGED <<active, marker, acquired, pc, i, g, aged>>
       ELSE \E fsOK \in BOOLEAN :
              IF ~fsOK
              THEN /\ ev' = Ev(p, "TryLock", "createfail", FALSE, FALSE)
                   /\ UNCHANGED <<active, marker, acquired, pc, i, g, aged>>
              ELSE IF Exists(marker)
              THEN /\ ev' = Ev(p, "TryLock", "held", FALSE, FALSE)
                   /\ UNCHANGED <<active, marker, acquired, pc, i, g, aged>>
              ELSE /\ marker' = NewMarker(p)
                   /\ acquired' = [acquired EXCEPT ![p] = TRUE]
                   /\ g' = Disturbed(g, p)
                   /\ aged' = [aged EXCEPT ![p] = FALSE]
                   /\ ev' = Ev(p, "TryLock", "ok", FALSE, FALSE)
                   /\ UNCHANGED <<active, pc, i>>

\* A minute passes: the marker, if any, is a minute older.
Tick ==
    /\ Exists(marker)
    /\ marker.age < MaxAge
    /\ marker' = [marker EXCEPT !.age = marker.age + 1]
    /\ aged' = [p \in Procs |->
                  aged[p] \/ (acquired[p] /\ marker.pid = p /\ Old(marker'))]
    /\ ev' = NoEv
    /\ UNCHANGED <<active, acquired, pc, i, g>>

(***************************************************************************)
(* Part II: the middleware of main.go.  One CaptchaProtect instance serves *)
(* requests one at a time; its three go-cache caches, the state-change     *)
(* channel, the reload timestamp and the shared state file are the state.  *)
(* The clock counts ticks of 5 seconds, the reload interval of main.go:933.*)
(***************************************************************************)

\* Config.RateLimit (main.go:90 defaults it to 20), scaled down.
RateLimit == 2

\* Config.Window, the default expiration of all three caches (main.go:121 and
\* :217-219), in ticks.
Window == 2

\* main.go:933: a reload is due 5 seconds after the last one, one tick.
ReloadTicks == 1

\* The largest request count of the model: requests that would count past it
\* are not generated.
MaxCount == RateLimit + 1

\* Client addresses <<network, host>>.  Network 10 stands for the built-in
\* exempt range 10.0.0.0/8 (main.go:197-203).
IPs == {<<1, 1>>, <<1, 2>>, <<10, 1>>}

ExemptNets == {10}

\* main.go:634-655, ParseIp: the address and the address masked to the subnet.
ParseIp(ip) == [ip |-> ip, subnet |-> <<ip[1], 0>>]

Subnets == {ParseIp(ip).subnet : ip \in IPs}

\* helper.IsIpExcluded (main.go:442): the address lies in an exempt range.
IsIpExcluded(ip) == ip[1] \in ExemptNets

\* helper.IsIpGoodBot (main.go:687) for the configured goodBots: no address of
\* the model resolves to a good bot.
IsIpGoodBot(ip) == FALSE

(***************************************************************************)
(* Strings are sequences of characters.                                    *)
(***************************************************************************)
HasPrefix(str, pre) ==
    /\ Len(pre) <= Len(str)
    /\ SubSeq(str, 1, Len(pre)) = pre

HasSuffix(str, suf) ==
    /\ Len(suf) <= Len(str)
    /\ SubSeq(str, Len(str) - Len(suf) + 1, Len(str)) = suf

\* strings.ToLower on the letters the model uses.
LowerChar(c) ==
    CASE c = "H" -> "h" [] c = "P" -> "p" [] c = "B" -> "b" [] OTHER -> c

ToLower(str) == [n \in 1..Len(str) |-> LowerChar(str[n])]

\* strings.EqualFold
EqualFold(a, b) == ToLower(a) = ToLower(b)

\* filepath.Ext: the suffix from the last dot of the last path element, dot
\* included; empty when that element has no dot.
RECURSIVE ExtFrom(_, _)
ExtFrom(path, n) ==
    IF n < 1 \/ path[n] = "/" THEN <<>>
    ELSE IF path[n] = "." THEN SubSeq(path, n, Len(path))
    ELSE ExtFrom(path, n - 1)

Ext(path) == ExtFrom(path, Len(path))

\* strings.TrimPrefix(ext, ".")
TrimDot(ext) == IF HasPrefix(ext, <<".">>) THEN Tail(ext) ELSE ext

\* Is the path under one of the routes of the list (the loops of main.go:473
\* and :516).
UnderSome(path, routes) == \E n \in 1..Len(routes) : HasPrefix(path, routes[n])

\* Mutant of AmongExtensions: the extension compared case and all.
AmongExtensions_CaseSensitive(ext, exts) == \E n \in 1..Len(exts) : ext = exts[n]

\* Is the extension one of the list, case ignored (the loops of main.go:485
\* and :523).
AmongExtensions(ext, exts) == \E n \in 1..Len(exts) : EqualFold(ext, exts[n])

\* The configuration of the instance (Config, main.go:32-57, after the
\* defaulting of NewCaptchaProtect).
ProtectRoutes == << <<"/", "a">> >>

ExcludeRoutes == << <<"/", "a", "/", "x">> >>

\* main.go:191-193 appends "html"; the model's extension "h".
ProtectFileExtensions == << <<"h">> >>

\* main.go:166-171
ProtectHttpMethods == {"GET", "HEAD"}

\* main.go:149-154, lower-cased at start-up.
ExemptUserAgents == << <<"b">> >>

\* main.go:95
ProtectParameters == "false"

\* main.go:110
Mode == "prefix"

\* main.go:103, "/challenge".
ChallengePath == <<"/", "c">>

\* main.go:313, "/captcha-protect/stats".
StatsPath == <<"/", "s">>

\* ci/docker-compose.yml:18 turns the stats page on.
EnableStatsPage == "true"

\* main.go:465-495, the loop over protectRoutes from its n-th entry on: an
\* entry the path is not under, one with an exclusion over the path, and one
\* whose file extension is not listed all pass on to the next entry.
RECURSIVE PrefixFrom(_, _, _, _, _)
PrefixFrom(protect, exclude, exts, path, n) ==
    IF n > Len(protect) THEN FALSE
    ELSE IF ~HasPrefix(path, protect[n])
    THEN PrefixFrom(protect, exclude, exts, path, n + 1)
    ELSE IF UnderSome(path, exclude)
    THEN PrefixFrom(protect, exclude, exts, path, n + 1)
    ELSE LET ext == TrimDot(Ext(path))
         IN  IF ext = <<>> THEN TRUE
             ELSE IF AmongExtensions(ext, exts) THEN TRUE
             ELSE PrefixFrom(protect, exclude, exts, path, n + 1)

\* main.go:465-495 for the configuration of the instance.
RouteIsProtectedPrefix(path) ==
    PrefixFrom(ProtectRoutes, ExcludeRoutes, ProtectFileExtensions, path, 1)

\* main.go:497-531
RouteIsProtectedSuffix(path) ==
    LET ext == Ext(path)
        cleanPath == IF ext # <<>>
                     THEN SubSeq(path, 1, Len(path) - Len(ext))
                     ELSE path
    IN  \E n \in 1..Len(ProtectRoutes) :
            /\ HasSuffix(cleanPath, ProtectRoutes[n])
            /\ ~UnderSome(cleanPath, ExcludeRoutes)
            /\ \/ TrimDot(ext) = <<>>
               \/ AmongExtensions(TrimDot(ext), ProtectFileExtensions)

\* main.go:533-542
isGoodUserAgent(ua) ==
    \E n \in 1..Len(ExemptUserAgents) : HasPrefix(ToLower(ua), ExemptUserAgents[n])

(***************************************************************************)
(* url.QueryUnescape (main.go:392): %XX becomes the character, + a space;  *)
(* a % not followed by two hex digits is an error.                         *)
(***************************************************************************)
HexDigits == {"0", "1", "2", "3", "4", "5", "6", "7", "8", "9",
              "A", "B", "C", "D", "E", "F", "a", "b", "c", "d", "e", "f"}

\* The characters of the escapes the model uses.
HexChar(h1, h2) ==
    CASE h1 = "2" /\ h2 \in {"F", "f"} -> "/"
      [] h1 = "6" /\ h2 = "1" -> "a"
      [] OTHER -> "?"

RECURSIVE QueryUnescape(_)
QueryUnescape(str) ==
    IF str = <<>> THEN [ok |-> TRUE, val |-> <<>>]
    ELSE IF Head(str) = "%"
    THEN IF Len(str) >= 3 /\ str[2] \in HexDigits /\ str[3] \in HexDigits
         THEN LET rest == QueryUnescape(SubSeq(str, 4, Len(str)))
              IN  [ok |-> rest.ok, val |-> <<HexChar(str[2], str[3])>> \o rest.val]
         ELSE [ok |-> FALSE, val |-> <<>>]
    ELSE LET rest == QueryUnescape(Tail(str))
         IN  [ok |-> rest.ok,
              val |-> <<IF Head(str) = "+" THEN " " ELSE Head(str)>> \o rest.val]

(***************************************************************************)
(* The go-cache caches.  An entry is its value and the ticks it has left;  *)
(* ttl -1 is "no entry".  go-cache stores now + d and compares it with the *)
(* clock on every read; an entry set with the default expiration at tick t *)
(* is last seen at tick t + Window.                                        *)
(***************************************************************************)
NoCount == [v |-> 0, ttl |-> -1]

NoFlag == [v |-> FALSE, ttl |-> -1]

Live(e) == e.ttl >= 0

\* Mutant of CacheSet: the entry is given a lifetime of one tick more than the
\* window.
CacheSet_Longer(c, k, v) == [c EXCEPT ![k] = [v |-> v, ttl |-> Window + 1]]

\* Set(k, v, DefaultExpiration), main.go:386, :688, :908-916, :973-981
CacheSet(c, k, v) == [c EXCEPT ![k] = [v |-> v, ttl |-> Window]]

\* Get(k), main.go:437, :576, :682
CacheGet(c, k) == [found |-> Live(c[k]), v |-> c[k].v]

\* Add(k, v, DefaultExpiration), main.go:585: an error when k has a live entry.
CacheAdd(c, k, v) ==
    IF Live(c[k]) THEN [err |-> TRUE, c |-> c]
    ELSE [err |-> FALSE, c |-> CacheSet(c, k, v)]

\* IncrementUint(k, n), main.go:591: an error when k has no live entry; the
\* expiration of the entry is kept.
CacheIncrementUint(c, k, n) ==
    IF ~Live(c[k]) THEN [err |-> TRUE, c |-> c]
    ELSE [err |-> FALSE, c |-> [c EXCEPT ![k].v = @ + n]]

\* Mutant of CacheItems: every key of the cache, expired or never set ones
\* included.
CacheItems_Unfiltered(c) == [k \in DOMAIN c |-> c[k].v]

\* Items(), main.go:738, :961: the live entries.
CacheItems(c) == [k \in {x \in DOMAIN c : Live(c[x])} |-> c[k].v]

\* The caches with every entry one tick older.
Aged(c, nil) ==
    [k \in DOMAIN c |-> IF c[k].ttl > 0 THEN [c[k] EXCEPT !.ttl = @ - 1] ELSE nil]

\* state.State, and state.GetState (main.go:738, :961) of the three caches.
EmptyState == [Rate |-> <<>>, Bots |-> <<>>, Verified |-> <<>>]

GetState(rate, bot, ver) ==
    [Rate |-> CacheItems(rate), Bots |-> CacheItems(bot), Verified |-> CacheItems(ver)]

\* What one instance holds: the part of the state a request handler works on.
Mem == [rate |-> rateCache, bot |-> botCache, ver |-> verifiedCache,
        sig |-> stateChanged, sinceReload |-> sinceReload]

\* make(chan struct{}, 1), main.go:272: the depth of the channel.
ChannelDepth == 1

\* Mutant of notifyStateChange: a full channel takes the signal away.
notifyStateChange_Toggles(st) ==
    IF persist THEN [st EXCEPT !.sig = IF @ < ChannelDepth THEN @ + 1 ELSE 0] ELSE st

\* Mutant of notifyStateChange: the send always finds room.
notifyStateChange_Unbounded(st) == IF persist THEN [st EXCEPT !.sig = @ + 1] ELSE st

\* main.go:862-870: a non-blocking send, which queues a signal when the
\* channel has room and does nothing when it is full; no channel without a
\* state file.
notifyStateChange(st) ==
    IF persist /\ st.sig < ChannelDepth THEN [st EXCEPT !.sig = @ + 1] ELSE st

\* Mutant of Larger: memory's count is kept whatever the file holds.
Larger_Memory(fileRate, memoryRate) == memoryRate

\* main.go:836-839: the file's count replaces memory's only when it is higher.
Larger(fileRate, memoryRate) == IF fileRate > memoryRate THEN fileRate ELSE memoryRate

\* Mutant of Kept: the file's value replaces memory's.
Kept_FromFile(fileValue, memoryValue) == fileValue

\* main.go:847-849 and :854-856: a key memory has keeps memory's value.
Kept(fileValue, memoryValue) == memoryValue

\* main.go:815-860: memory's maps, with the file's entries merged in.
reconcileStates(fileState, memoryState) ==
    [Rate |-> [k \in DOMAIN fileState.Rate \cup DOMAIN memoryState.Rate |->
                 IF k \in DOMAIN memoryState.Rate
                 THEN IF k \in DOMAIN fileState.Rate
                      THEN Larger(fileState.Rate[k], memoryState.Rate[k])
                      ELSE memoryState.Rate[k]
                 ELSE fileState.Rate[k]],
     Bots |-> [k \in DOMAIN fileState.Bots \cup DOMAIN memoryState.Bots |->
                 IF k \in DOMAIN memoryState.Bots
                 THEN IF k \in DOMAIN fileState.Bots
                      THEN Kept(fileState.Bots[k], memoryState.Bots[k])
                      ELSE memoryState.Bots[k]
                 ELSE fileState.Bots[k]],
     Verified |-> [k \in DOMAIN fileState.Verified \cup DOMAIN memoryState.Verified |->
                 IF k \in DOMAIN memoryState.Verified
                 THEN IF k \in DOMAIN fileState.Verified
                      THEN Kept(fileState.Verified[k], memoryState.Verified[k])
                      ELSE memoryState.Verified[k]
                 ELSE fileState.Verified[k]]]

\* main.go:780-813: the file's state, or the empty state when the file lock is
\* not acquired (or the file is missing, empty or unparseable).
readStateFromFile(lockOK) == IF lockOK THEN disk ELSE EmptyState

\* Flush(), main.go:967-969: no entry is left.
Flushed(c, nil) == [k \in DOMAIN c |-> nil]

\* main.go:972-982: Set(k, v, DefaultExpiration) for every entry of the map m.
SetAll(c, m) ==
    [k \in DOMAIN c |-> IF k \in DOMAIN m THEN [v |-> m[k], ttl |-> Window] ELSE c[k]]

\* main.go:966-982: the cache flushed, then every entry of the map m set.
Installed(c, nil, m) == SetAll(Flushed(c, nil), m)

\* Mutant of reloadStateFromFile: no early return on an empty file state.
reloadStateFromFile_Always(st, lockOK) ==
    LET fileState == readStateFromFile(lockOK)
        memoryState == GetState(st.rate, st.bot, st.ver)
        r == reconcileStates(fileState, memoryState)
    IN  [st EXCEPT !.rate = Installed(st.rate, NoCount, r.Rate),
                   !.bot = Installed(st.bot, NoFlag, r.Bots),
                   !.ver = Installed(st.ver, NoFlag, r.Verified)]

\* main.go:949-988
reloadStateFromFile(st, lockOK) ==
    LET fileState == readStateFromFile(lockOK)
        memoryState == GetState(st.rate, st.bot, st.ver)
        r == reconcileStates(fileState, memoryState)
    IN  IF /\ DOMAIN fileState.Rate = {}
           /\ DOMAIN fileState.Bots = {}
           /\ DOMAIN fileState.Verified = {}
        THEN st
        ELSE [st EXCEPT !.rate = Installed(st.rate, NoCount, r.Rate),
                        !.bot = Installed(st.bot, NoFlag, r.Bots),
                        !.ver = Installed(st.ver, NoFlag, r.Verified)]

\* main.go:926-947
reloadStateIfNeeded(st, lockOK) ==
    IF st.sinceReload < ReloadTicks THEN st
    ELSE reloadStateFromFile([st EXCEPT !.sinceReload = 0], lockOK)

\* main.go:872-924: the load at start-up, straight into the caches.
loadState(st, file) ==
    [st EXCEPT !.rate = [k \in DOMAIN st.rate |->
                           IF k \in DOMAIN file.Rate
                           THEN [v |-> file.Rate[k], ttl |-> Window] ELSE st.rate[k]],
               !.bot = [k \in DOMAIN st.bot |->
                           IF k \in DOMAIN file.Bots
                           THEN [v |-> file.Bots[k], ttl |-> Window] ELSE st.bot[k]],
               !.ver = [k \in DOMAIN st.ver |->
                           IF k \in DOMAIN file.Verified
                           THEN [v |-> file.Verified[k], ttl |-> Window] ELSE st.ver[k]]]

\* Mutant of OverLimit: the comparison written >=.
OverLimit_AtLimit(v) == v >= RateLimit

\* main.go:581: strictly more requests than the limit.
OverLimit(v) == v > RateLimit

\* main.go:575-582
trippedRateLimit(st, key) ==
    LET e == CacheGet(st.rate, key)
    IN  IF ~e.found THEN FALSE ELSE OverLimit(e.v)

\* main.go:584-597
registerRequest(st, key) ==
    LET a == CacheAdd(st.rate, key, 1)
        n == CacheIncrementUint(st.rate, key, 1)
    IN  IF ~a.err THEN notifyStateChange([st EXCEPT !.rate = a.c])
        ELSE IF n.err THEN st
        ELSE notifyStateChange([st EXCEPT !.rate = n.c])

\* main.go:675-691: the verdict, and the state with the verdict memoized.
isGoodBot(st, req, clientIP) ==
    IF ProtectParameters = "true" /\ req.query
    THEN [st |-> st, v |-> FALSE, looked |-> FALSE]
    ELSE LET e == CacheGet(st.bot, clientIP)
         IN  IF e.found THEN [st |-> st, v |-> e.v, looked |-> TRUE]
             ELSE [st |-> notifyStateChange(
                             [st EXCEPT !.bot = CacheSet(st.bot, clientIP,
                                                         IsIpGoodBot(clientIP))]),
                   v |-> IsIpGoodBot(clientIP), looked |-> TRUE]

\* Mutant of Verified: the verified cache is not consulted.
Verified_Ignored(st, clientIP) == FALSE

\* main.go:437-440: the verified cache is read under the client address.
Verified(st, clientIP) == CacheGet(st.ver, clientIP).found

\* Mutant of Exempt: the exempt ranges are not consulted.
Exempt_Never(clientIP) == FALSE

\* main.go:442-444: the client address lies in an exempt range.
Exempt(clientIP) == IsIpExcluded(clientIP)

\* main.go:432-463
shouldApply(st, req, clientIP) ==
    IF req.method \notin ProtectHttpMethods
    THEN [st |-> st, apply |-> FALSE, looked |-> FALSE]
    ELSE IF Verified(st, clientIP)
    THEN [st |-> st, apply |-> FALSE, looked |-> FALSE]
    ELSE IF Exempt(clientIP)
    THEN [st |-> st, apply |-> FALSE, looked |-> FALSE]
    ELSE LET b == isGoodBot(st, req, clientIP)
         IN  IF b.v THEN [st |-> b.st, apply |-> FALSE, looked |-> b.looked]
             ELSE IF isGoodUserAgent(req.ua)
             THEN [st |-> b.st, apply |-> FALSE, looked |-> b.looked]
             ELSE [st |-> b.st, looked |-> b.looked,
                   apply |-> IF Mode = "suffix"
                             THEN RouteIsProtectedSuffix(req.path)
                             ELSE RouteIsProtectedPrefix(req.path)]

\* Mutant of Success: any decodable reply of the provider is taken as a pass.
Success_AnyReply(reply) == reply \in {"success", "fail"}

\* main.go:385: the reply decoded into captchaResponse with Success true.
Success(reply) == reply = "success"

\* Mutant of Rejected: the client is marked before the verdict is looked at.
Rejected_Marked(st, ip) ==
    notifyStateChange([st EXCEPT !.ver = CacheSet(st.ver, ip, TRUE)])

\* main.go:401-403: a failed validation writes its error and nothing else.
Rejected(st, ip) == st

\* main.go:360-404.  req.token is the form value <key>-response, req.reply
\* what the provider's validate endpoint does with it: "neterr" (PostForm
\* fails), "garbage" (the body is not JSON), "fail" or "success".
verifyChallengePage(st, req, ip) ==
    IF req.token = <<>>
    THEN [st |-> st, code |-> 400, loc |-> <<>>]
    ELSE IF req.reply = "neterr"
    THEN [st |-> st, code |-> 500, loc |-> <<>>]
    ELSE IF req.reply = "garbage"
    THEN [st |-> st, code |-> 500, loc |-> <<>>]
    ELSE IF Success(req.reply)
    THEN LET destination == IF req.dest = <<>> THEN <<"%", "2", "F">> ELSE req.dest
             u == QueryUnescape(destination)
         IN  [st |-> notifyStateChange([st EXCEPT !.ver = CacheSet(st.ver, ip, TRUE)]),
              code |-> 302,
              loc |-> IF u.ok THEN u.val ELSE <<"/">>]
    ELSE [st |-> Rejected(st, ip), code |-> 403, loc |-> <<>>]

\* main.go:228-233: the status of the challenge page when none is configured.
ChallengeStatusCode == IF onPage THEN 429 ELSE 200

\* main.go:340-358
serveChallengePage == [code |-> ChallengeStatusCode, loc |-> <<>>]

\* main.go:406-430
serveStatsPage(ip) ==
    IF ~IsIpExcluded(ip) THEN [code |-> 403, loc |-> <<>>]
    ELSE [code |-> 200, loc |-> <<>>]

\* main.go:599-632 with :634-655: the client address and its subnet key.
getClientIP(req) == ParseIp(req.ip)

\* What a request was answered with: by is the branch of ServeHTTP that wrote
\* the response ("next" is the next handler of the chain), registered and
\* looked say whether registerRequest ran and whether the bot cache was
\* consulted.
Answer(st, by, code, loc, registered, looked) ==
    [st |-> st, by |-> by, code |-> code, loc |-> loc,
     registered |-> registered, looked |-> looked]

\* main.go:319-337, once the request is not for the challenge or stats page.
Protect(st, req, clientIP, ipRange) ==
    LET a == shouldApply(st, req, clientIP)
        r == registerRequest(a.st, ipRange)
    IN  IF ~a.apply
        THEN Answer(a.st, "next", 0, <<>>, FALSE, a.looked)
        ELSE IF ~trippedRateLimit(r, ipRange)
        THEN Answer(r, "next", 0, <<>>, TRUE, a.looked)
        ELSE IF onPage
        THEN Answer(r, "challenge", serveChallengePage.code, <<>>, TRUE, a.looked)
        ELSE Answer(r, "redirect", 302, ChallengePath, TRUE, a.looked)

\* main.go:288-290
Reloaded(st, req) == IF persist THEN reloadStateIfNeeded(st, req.lockOK) ELSE st

\* main.go:286-338.  With the challenge on the page the configured ChallengeURL
\* is "?challenge=true", which no request path equals.
Serve(st0, req) ==
    LET st == Reloaded(st0, req)
        clientIP == getClientIP(req).ip
        ipRange == getClientIP(req).subnet
    IN  IF onPage /\ req.method = "POST"
        THEN IF req.challenge
             THEN LET v == verifyChallengePage(st, req, clientIP)
                  IN  Answer(v.st, "verify", v.code, v.loc, FALSE, FALSE)
             ELSE Protect(st, req, clientIP, ipRange)
        ELSE IF ~onPage /\ req.path = ChallengePath
        THEN IF req.method = "GET"
             THEN Answer(st, "page", serveChallengePage.code, <<>>, FALSE, FALSE)
             ELSE IF req.method = "POST"
             THEN LET v == verifyChallengePage(st, req, clientIP)
                  IN  Answer(v.st, "verify", v.code, v.loc, FALSE, FALSE)
             ELSE Answer(st, "error", 405, <<>>, FALSE, FALSE)
        ELSE IF req.path = StatsPath /\ EnableStatsPage = "true"
        THEN Answer(st, "stats", serveStatsPage(clientIP).code, <<>>, FALSE, FALSE)
        ELSE Protect(st, req, clientIP, ipRange)

(***************************************************************************)
(* The requests.  A request names its client address, method, path and     *)
(* user agent; a verification also the response token, what the provider   *)
(* replies and the destination; lockOK is whether a reload, when one is    *)
(* due, acquires the file lock.  Fields a request does not reach are fixed.*)
(***************************************************************************)
Request(ip, method, path, ua, challenge, token, reply, dest, lockOK) ==
    [ip |-> ip, method |-> method, path |-> path, ua |-> ua, query |-> FALSE,
     challenge |-> challenge, token |-> token, reply |-> reply, dest |-> dest,
     lockOK |-> lockOK]

Paths == {<<"/", "a">>, <<"/", "a", "/", "x">>, <<"/", "z">>, ChallengePath, StatsPath}

UserAgents == {<<"m">>, <<"B", "o", "t">>}

\* Destinations: none, an escaped path, a plain path, a broken escape.
Destinations == {<<>>, <<"%", "2", "F", "a">>, <<"/", "z">>, <<"%", "z">>}

\* A token with what the provider makes of it, and the destination sent along.
Submissions ==
    {[token |-> <<>>, reply |-> "none", dest |-> <<>>]}
    \cup {[token |-> <<"t">>, reply |-> r, dest |-> <<>>] : r \in {"neterr", "garbage", "fail"}}
    \cup {[token |-> <<"t">>, reply |-> "success", dest |-> d] : d \in Destinations}

\* The clients outside the exempt ranges.
Clients == {ip \in IPs : ~IsIpExcluded(ip)}

Requests ==
    LET locks == IF persist /\ sinceReload >= ReloadTicks THEN BOOLEAN ELSE {TRUE}
        Plain(ip, method, path, ua, l) ==
            Request(ip, method, path, ua, FALSE, <<>>, "none", <<>>, l)
    IN  {Plain(ip, "GET", <<"/", "a">>, ua, l) :
            ip \in IPs, ua \in UserAgents, l \in locks}
        \cup
        {Plain(ip, "GET", path, <<"m">>, l) :
            ip \in Clients, path \in Paths \ {<<"/", "a">>}, l \in locks}
        \cup
        {Plain(ip, "GET", StatsPath, <<"m">>, l) : ip \in IPs \ Clients, l \in locks}
        \cup
        {Plain(<<1, 1>>, m, <<"/", "a">>, <<"m">>, l) : m \in {"PUT", "POST"}, l \in locks}
        \cup
        {Plain(<<1, 1>>, "PUT", ChallengePath, <<"m">>, l) : l \in locks}
        \cup
        {Request(ip, "POST", IF onPage THEN <<"/", "a">> ELSE ChallengePath, <<"m">>,
                 onPage, s.token, s.reply, s.dest, l) :
            ip \in Clients, s \in Submissions, l \in locks}

\* No request served in the last step.
NoOut == [ip |-> <<0, 0>>, method |-> "-", path |-> <<>>,
          by |-> "-", code |-> 0, loc |-> <<>>,
          registered |-> FALSE, looked |-> FALSE,
          token |-> <<>>, reply |-> "none", dest |-> <<>>, lockOK |-> TRUE]

\* Ghost: the requests registered for each subnet since it had no counter,
\* 0 once a reload has changed the count or the counter has expired.
Registered(pre, res, s) ==
    [k \in Subnets |->
        LET changed == pre.rate[k].v # rateCache[k].v
        IN  IF k = s /\ res.registered
            THEN IF ~Live(pre.rate[k]) THEN 1
                 ELSE IF regs[k] > 0 /\ ~changed THEN regs[k] + 1
                 ELSE 0
            ELSE IF changed THEN 0 ELSE regs[k]]

\* One request handled from start to end (main.go:286-338); requests are
\* handled one after another.
ServeHTTP ==
    \E req \in Requests :
        LET res == Serve(Mem, req)
        IN  /\ out = NoOut
            /\ \A k \in Subnets : res.st.rate[k].v <= MaxCount
            /\ rateCache' = res.st.rate
            /\ botCache' = res.st.bot
            /\ verifiedCache' = res.st.ver
            /\ stateChanged' = res.st.sig
            /\ sinceReload' = res.st.sinceReload
            /\ regs' = Registered(Reloaded(Mem, req), res, getClientIP(req).subnet)
            /\ out' = [ip |-> req.ip, method |-> req.method, path |-> req.path,
                       by |-> res.by, code |-> res.code, loc |-> res.loc,
                       registered |-> res.registered, looked |-> res.looked,
                       token |-> req.token, reply |-> req.reply, dest |-> req.dest,
                       lockOK |-> req.lockOK]
            /\ UNCHANGED <<persist, onPage, disk>>

\* ServeHTTP returns (main.go:298, :312, :316, :321, :327, :334, :338): the
\* response is out and the next request can be taken.
Respond ==
    /\ out # NoOut
    /\ out' = NoOut
    /\ UNCHANGED <<persist, onPage, rateCache, botCache, verifiedCache,
                   stateChanged, sinceReload, disk, regs>>

\* main.go:718-722 with :732-748: the saving goroutine takes the pending signal
\* and writes the file's state reconciled with the caches; readOK and writeOK
\* are whether the read and the write acquire the file lock.
SaveState ==
    /\ persist
    /\ out = NoOut
    /\ stateChanged = 1
    /\ \E readOK \in BOOLEAN, writeOK \in BOOLEAN :
          LET currentState == readStateFromFile(readOK)
              newState == GetState(rateCache, botCache, verifiedCache)
              reconciledState == reconcileStates(currentState, newState)
          IN  disk' = IF writeOK THEN reconciledState ELSE disk
    /\ stateChanged' = 0
    /\ UNCHANGED <<persist, onPage, rateCache, botCache, verifiedCache, sinceReload,
                   regs, out>>

\* What another instance sharing the state file may hold when it saves.
SiblingStates ==
    {[Rate |-> (<<1, 0>> :> RateLimit + 1 @@ <<10, 0>> :> RateLimit + 1), Bots |-> <<>>, Verified |-> <<>>],
     [Rate |-> <<>>, Bots |-> <<>>, Verified |-> (<<1, 2>> :> TRUE)]}

\* Another instance saves its state (its own saveStateWithLock).
SiblingSave ==
    /\ persist
    /\ out = NoOut
    /\ \E s \in SiblingStates :
          /\ disk' = reconcileStates(disk, s)
          /\ disk' # disk
    /\ UNCHANGED <<persist, onPage, rateCache, botCache, verifiedCache,
                   stateChanged, sinceReload, regs, out>>

\* One tick passes: every entry has a tick less to live, and an entry out of
\* ticks is gone.
Elapse ==
    /\ out = NoOut
    /\ rateCache' = Aged(rateCache, NoCount)
    /\ botCache' = Aged(botCache, NoFlag)
    /\ verifiedCache' = Aged(verifiedCache, NoFlag)
    /\ sinceReload' = IF sinceReload < ReloadTicks THEN sinceReload + 1 ELSE sinceReload
    /\ regs' = [k \in Subnets |-> IF Live(rateCache'[k]) THEN regs[k] ELSE 0]
    /\ UNCHANGED <<persist, onPage, stateChanged, disk, out>>

\* No process is saving.
NoSavers ==
    [p \in Procs |-> [pc |-> "off", cur |-> EmptyState, mem |-> EmptyState,
                      read |-> "none"]]

\* The file lock at rest, while the middleware is looked at.
LockIdle ==
    /\ active = {}
    /\ marker = NoFile
    /\ acquired = [p \in Procs |-> FALSE]
    /\ pc = [p \in Procs |-> "idle"]
    /\ i = [p \in Procs |-> 0]
    /\ g = [p \in Procs |-> NoCall]
    /\ aged = [p \in Procs |-> FALSE]
    /\ ev = NoEv

\* The middleware at rest, while the file lock is looked at.
HttpIdle ==
    /\ persist = FALSE
    /\ onPage = FALSE
    /\ rateCache = [k \in Subnets |-> NoCount]
    /\ botCache = [k \in IPs |-> NoFlag]
    /\ verifiedCache = [k \in IPs |-> NoFlag]
    /\ stateChanged = 0
    /\ sinceReload = ReloadTicks
    /\ disk = EmptyState
    /\ regs = [k \in Subnets |-> 0]
    /\ out = NoOut

\* NewCaptchaProtect (main.go:118-284): empty caches, then with a state file
\* the channel and loadState of whatever the file holds; lastStateReload is
\* the zero time, so a reload is due.
NewCaptchaProtect(withFile, files) ==
    /\ LockIdle
    /\ saver = NoSavers
    /\ persist = withFile
    /\ onPage \in BOOLEAN
    /\ disk \in files
    /\ LET st == loadState([rate |-> [k \in Subnets |-> NoCount],
                            bot |-> [k \in IPs |-> NoFlag],
                            ver |-> [k \in IPs |-> NoFlag],
                            sig |-> 0, sinceReload |-> ReloadTicks], disk)
       IN  /\ rateCache = st.rate
           /\ botCache = st.bot
           /\ verifiedCache = st.ver
    /\ stateChanged = 0
    /\ sinceReload = ReloadTicks
    /\ regs = [k \in Subnets |-> 0]
    /\ out = NoOut

\* The instance of the default configuration (main.go:88-112): no state file.
Init ==
    /\ NewCaptchaProtect(FALSE, {EmptyState})
    /\ applied = NotApplied
    /\ task = NoTask
    /\ sync = NoSync

Next ==
    \/ ServeHTTP /\ UNCHANGED <<lockVars, applied, saver, task, sync>>
    \/ Respond /\ UNCHANGED <<lockVars, applied, saver, task, sync>>
    \/ Elapse /\ UNCHANGED <<lockVars, applied, saver, task, sync>>

Spec == Init /\ [][Next]_vars

\* An instance with a state file it shares with another instance, over one
\* reload interval: the requests of one tick, the saves they signal and the
\* saves of the other instance.
InitShared ==
    /\ NewCaptchaProtect(TRUE, {EmptyState} \cup SiblingStates)
    /\ applied = NotApplied
    /\ task = NoTask
    /\ sync = NoSync

NextShared ==
    \/ ServeHTTP /\ UNCHANGED <<lockVars, applied, saver, task, sync>>
    \/ Respond /\ UNCHANGED <<lockVars, applied, saver, task, sync>>
    \/ SaveState /\ UNCHANGED <<lockVars, applied, saver, task, sync>>
    \/ SiblingSave /\ UNCHANGED <<lockVars, applied, saver, task, sync>>

SpecShared == InitShared /\ [][NextShared]_vars

LockInit(procs) ==
    /\ active = procs
    /\ marker \in {NoFile, [pid |-> 0, age |-> 0]}
    /\ acquired = [p \in Procs |-> FALSE]
    /\ pc = [p \in Procs |-> "idle"]
    /\ i = [p \in Procs |-> 0]
    /\ g = [p \in Procs |-> NoCall]
    /\ aged = [p \in Procs |-> FALSE]
    /\ ev = NoEv
    /\ HttpIdle
    /\ applied = NotApplied
    /\ saver = NoSavers
    /\ task = NoTask
    /\ sync = NoSync

LockNext ==
    \/ \E p \in active : Lock_Enter(p) /\ UNCHANGED <<httpVars, applied, saver, task, sync>>
    \/ \E p \in active : Lock_OpenFile(p) /\ UNCHANGED <<httpVars, applied, saver, task, sync>>
    \/ \E p \in active : Lock_Stat(p) /\ UNCHANGED <<httpVars, applied, saver, task, sync>>
    \/ \E p \in active : Lock_Remove(p) /\ UNCHANGED <<httpVars, applied, saver, task, sync>>
    \/ \E p \in active : Lock_Sleep(p) /\ UNCHANGED <<httpVars, applied, saver, task, sync>>
    \/ \E p \in active : Unlock(p) /\ UNCHANGED <<httpVars, applied, saver, task, sync>>
    \/ \E p \in active : TryLock(p) /\ UNCHANGED <<httpVars, applied, saver, task, sync>>
    \/ Tick /\ UNCHANGED <<httpVars, applied, saver, task, sync>>

\* Three processes contend for the lock.
InitLock == LockInit(Procs)

SpecLock == InitLock /\ [][LockNext]_vars

\* Two FileLocks on one path, as in TestFileLock_ConcurrentLocking.
InitPair == LockInit(Pair)

SpecPair == InitPair /\ [][LockNext]_vars

(***************************************************************************)
(* Functions looked at on their own: the arguments are drawn at the start, *)
(* one step applies the function.                                          *)
(***************************************************************************)
\* The longest configured list looked at.
MaxListLen == 2

\* The lists of at most n elements of S.
ListsUpTo(S, n) == UNION {[1..k -> S] : k \in 0..n}

\* The elements of a list.
Range(list) == {list[n] : n \in 1..Len(list)}

\* A list back to front.
Reverse(list) == [n \in 1..Len(list) |-> list[Len(list) + 1 - n]]

\* Routes, exclusions, extensions and paths RouteIsProtectedPrefix is tried on.
SomeRoutes == {<<"/", "a">>, <<"/", "a", "/", "b">>, <<"/", "c">>}

SomeExclusions == {<<"/", "a", "/", "b">>, <<"/", "a">>}

SomeExtensions == {<<"h">>, <<"p">>}

SomePaths ==
    {<<"/", "a">>, <<"/", "a", "/", "b">>, <<"/", "z">>,
     <<"/", "a", "/", "x", ".", "h">>, <<"/", "a", "/", "x", ".", "H">>,
     <<"/", "a", "/", "x", ".", "p">>, <<"/", "a", "/", "b", "/", "x", ".", "h">>,
     <<"/", "c", "/", "x", ".">>, <<"/", "a", ".", "h", "/", "x">>,
     <<"/", "c", ".", "P">>}

InitRoute ==
    /\ LockIdle
    /\ HttpIdle
    /\ saver = NoSavers
    /\ task = NoTask
    /\ sync = NoSync
    /\ applied \in [fn : {"RouteIsProtectedPrefix"},
                    protect : ListsUpTo(SomeRoutes, MaxListLen),
                    exclude : ListsUpTo(SomeExclusions, MaxListLen),
                    exts : ListsUpTo(SomeExtensions, MaxListLen),
                    path : SomePaths,
                    done : {FALSE}, result : {FALSE}]

\* RouteIsProtectedPrefix (main.go:465-495) called on the drawn configuration.
ApplyRoute ==
    /\ applied.fn = "RouteIsProtectedPrefix"
    /\ ~applied.done
    /\ applied' = [applied EXCEPT
                     !.done = TRUE,
                     !.result = PrefixFrom(applied.protect, applied.exclude,
                                           applied.exts, applied.path, 1)]
    /\ UNCHANGED <<lockVars, httpVars, saver, task, sync>>

NextRoute == ApplyRoute

SpecRoute == InitRoute /\ [][NextRoute]_vars

\* The maps from some of the keys K to values of V.
MapsOf(K, V) == UNION {[D -> V] : D \in SUBSET K}

\* The snapshots reconcileStates is tried on: counts under and over the limit
\* for two subnets, verdicts for two addresses, a verified flag for one.
Snapshots ==
    [Rate : MapsOf(Subnets, {1, RateLimit + 1}),
     Bots : MapsOf(Clients, BOOLEAN),
     Verified : MapsOf({<<1, 1>>}, BOOLEAN)]

InitReconcile ==
    /\ LockIdle
    /\ HttpIdle
    /\ saver = NoSavers
    /\ task = NoTask
    /\ sync = NoSync
    /\ applied \in [fn : {"reconcileStates"}, file : Snapshots, memory : Snapshots,
                    done : {FALSE}, result : {EmptyState}]

\* reconcileStates (main.go:815-860) called on the drawn snapshots.
ApplyReconcile ==
    /\ applied.fn = "reconcileStates"
    /\ ~applied.done
    /\ applied' = [applied EXCEPT
                     !.done = TRUE,
                     !.result = reconcileStates(applied.file, applied.memory)]
    /\ UNCHANGED <<lockVars, httpVars, saver, task, sync>>

NextReconcile == ApplyReconcile

SpecReconcile == InitReconcile /\ [][NextReconcile]_vars

(***************************************************************************)
(* Two processes save to one state file (saveStateWithLock, main.go:732-   *)
(* 748).  A save is: readStateFromFile (main.go:780-813), which takes the  *)
(* file lock with a FileLock of its own, reads and unlocks; GetState and   *)
(* reconcileStates; writeStateToFile (main.go:750-778), which takes the    *)
(* lock with another FileLock, writes and unlocks.  saver[p].pc is "idle", *)
(* "rlock" (Lock() of the read under way), "rheld", "between" (read done,  *)
(* write not begun), "wlock" or "wheld".  The saves of a burst take far    *)
(* less than the five minutes after which a marker is stale: no minute     *)
(* passes here.  saver[p].read is a ghost: "ok" once the read of the save  *)
(* under way has taken the file lock, "failed" once it could not.          *)
(***************************************************************************)
\* What a process holds in memory: one subnet, counted n times.
Counted(n) == [Rate |-> (<<1, 0>> :> n), Bots |-> <<>>, Verified |-> <<>>]

\* Lock() of process p has returned in this step.
LockReturned(p) == ev'.op = "Lock" /\ ev'.p = p

\* main.go:785-789 and :755-758: where a save stands after a step of its Lock()
\* call.  A failed lock of the read makes the read return the empty state; a
\* failed lock of the write ends the save with an error and nothing written.
AfterLockStep(p) ==
    LET reading == saver[p].pc \in {"idle", "rlock"}
    IN  saver' = [saver EXCEPT ![p] =
            IF ~LockReturned(p)
            THEN [@ EXCEPT !.pc = IF reading THEN "rlock" ELSE "wlock"]
            ELSE IF ev'.res = "ok"
            THEN [@ EXCEPT !.pc = IF reading THEN "rheld" ELSE "wheld",
                           !.read = IF reading THEN "ok" ELSE @]
            ELSE IF reading
            THEN [@ EXCEPT !.pc = "between", !.cur = EmptyState, !.read = "failed"]
            ELSE [@ EXCEPT !.pc = "idle", !.cur = EmptyState, !.read = "none"]]

\* filelock.New and lock.Lock() of main.go:782-785 and :752-755.
Save_LockEnter(p) ==
    /\ saver[p].pc \in {"idle", "between"}
    /\ Lock_Enter(p)
    /\ AfterLockStep(p)
    /\ UNCHANGED <<httpVars, applied, task>>

\* A later step of that Lock() call.
Save_LockStep(p) ==
    /\ saver[p].pc \in {"rlock", "wlock"}
    /\ \/ Lock_OpenFile(p)
       \/ Lock_Stat(p)
       \/ Lock_Remove(p)
       \/ Lock_Sleep(p)
    /\ AfterLockStep(p)
    /\ UNCHANGED <<httpVars, applied, task>>

\* main.go:790-812: the file is read and the deferred Unlock runs.
Save_Read(p) ==
    /\ saver[p].pc = "rheld"
    /\ Unlock(p)
    /\ saver' = [saver EXCEPT ![p] = [@ EXCEPT !.pc = "between", !.cur = disk]]
    /\ UNCHANGED <<httpVars, applied, task>>

\* main.go:738-741 with :759-777: the file's snapshot reconciled with memory
\* is written and the deferred Unlock runs.
Save_Write(p) ==
    /\ saver[p].pc = "wheld"
    /\ Unlock(p)
    /\ disk' = reconcileStates(saver[p].cur, saver[p].mem)
    /\ saver' = [saver EXCEPT ![p] = [@ EXCEPT !.pc = "idle", !.cur = EmptyState,
                                               !.read = "none"]]
    /\ UNCHANGED <<persist, onPage, rateCache, botCache, verifiedCache, stateChanged,
                   sinceReload, regs, out, applied, task>>

\* Two processes, the state file absent, one of them with the higher count.
InitSave ==
    /\ active = Pair
    /\ marker = NoFile
    /\ acquired = [p \in Procs |-> FALSE]
    /\ pc = [p \in Procs |-> "idle"]
    /\ i = [p \in Procs |-> 0]
    /\ g = [p \in Procs |-> NoCall]
    /\ aged = [p \in Procs |-> FALSE]
    /\ ev = NoEv
    /\ HttpIdle
    /\ applied = NotApplied
    /\ \E n \in [Pair -> {1, RateLimit + 1}] :
          saver = [p \in Procs |->
                     IF p \in Pair
                     THEN [pc |-> "idle", cur |-> EmptyState, mem |-> Counted(n[p]),
                           read |-> "none"]
                     ELSE NoSavers[p]]
    /\ task = NoTask
    /\ sync = NoSync

NextSave ==
    \/ \E p \in active : Save_LockEnter(p) /\ UNCHANGED sync
    \/ \E p \in active : Save_LockStep(p) /\ UNCHANGED sync
    \/ \E p \in active : Save_Read(p) /\ UNCHANGED sync
    \/ \E p \in active : Save_Write(p) /\ UNCHANGED sync

SpecSave == InitSave /\ [][NextSave]_vars

(***************************************************************************)
(* The goroutine saveStateOnChange (main.go:709-730) of one instance with  *)
(* a state file, next to the requests that signal it and the cancellation  *)
(* of its context.  task.pc is "start" before the file access test,        *)
(* "select" at the select statement, "signal" and "final" inside the save  *)
(* of the first and of the second case, "exited" after the return.         *)
(* task.pending is the channel as it was when the context was cancelled;    *)
(* task.after counts the saves begun since then.  task.unsaved is a ghost:  *)
(* "no" when every change of the caches has been read by a save, else       *)
(* whether the notification of the last change queued a signal ("sent") or  *)
(* found the channel full ("full").                                         *)
(***************************************************************************)
\* main.go:711-716: the file access test; the goroutine returns when the file
\* can neither be opened nor created.
Task_Start ==
    /\ task.pc = "start"
    /\ \E ok \in BOOLEAN :
          task' = [task EXCEPT !.pc = IF ok THEN "select" ELSE "exited"]
    /\ UNCHANGED httpVars

\* main.go:720-722: the select takes the pending signal and the save begins.
\* With the context cancelled as well, both cases are ready and the select
\* picks either.
Task_Signal ==
    /\ task.pc = "select"
    /\ stateChanged = 1
    /\ stateChanged' = 0
    /\ task' = [task EXCEPT !.pc = "signal",
                            !.after = IF task.cancelled THEN @ + 1 ELSE @]
    /\ UNCHANGED <<persist, onPage, rateCache, botCache, verifiedCache, sinceReload,
                   disk, regs, out>>

\* main.go:723-726: the select takes ctx.Done() and the final save begins.
Task_Done ==
    /\ task.pc = "select"
    /\ task.cancelled
    /\ task' = [task EXCEPT !.pc = "final", !.after = @ + 1]
    /\ UNCHANGED httpVars

\* main.go:722 and :726-727 with :732-748: saveStateWithLock runs to its end;
\* after the first case the loop goes round, after the second the goroutine
\* returns.
Task_Save ==
    /\ task.pc \in {"signal", "final"}
    /\ \E readOK \in BOOLEAN, writeOK \in BOOLEAN :
          LET currentState == readStateFromFile(readOK)
              newState == GetState(rateCache, botCache, verifiedCache)
              reconciledState == reconcileStates(currentState, newState)
          IN  disk' = IF writeOK THEN reconciledState ELSE disk
    /\ task' = [task EXCEPT !.pc = IF task.pc = "signal" THEN "select" ELSE "exited",
                            !.unsaved = "no"]
    /\ UNCHANGED <<persist, onPage, rateCache, botCache, verifiedCache, stateChanged,
                   sinceReload, regs, out>>

\* main.go:276-280: the parent context is done and the child is cancelled.
Task_Cancel ==
    /\ task.pc # "off"
    /\ ~task.cancelled
    /\ task' = [task EXCEPT !.cancelled = TRUE, !.pending = stateChanged]
    /\ UNCHANGED httpVars

\* A request of a client is registered (main.go:584-597) and signals the
\* change.
Task_Request ==
    /\ \E ip \in IPs :
          LET st == registerRequest(Mem, ParseIp(ip).subnet)
          IN  /\ \A k \in Subnets : st.rate[k].v <= MaxCount
              /\ rateCache' = st.rate
              /\ stateChanged' = st.sig
              /\ task' = [task EXCEPT !.unsaved =
                                      IF st.rate = rateCache THEN @
                                      ELSE IF st.sig = stateChanged THEN "full"
                                      ELSE "sent"]
    /\ UNCHANGED <<persist, onPage, botCache, verifiedCache, sinceReload, disk, regs,
                   out>>

\* main.go:271-281: the instance with a state file, its goroutine started.
InitTask ==
    /\ NewCaptchaProtect(TRUE, {EmptyState} \cup SiblingStates)
    /\ applied = NotApplied
    /\ task = [pc |-> "start", cancelled |-> FALSE, pending |-> 0, after |-> 0,
               unsaved |-> "no"]
    /\ sync = NoSync

NextTask ==
    \/ Task_Start /\ UNCHANGED <<lockVars, applied, saver, sync>>
    \/ Task_Signal /\ UNCHANGED <<lockVars, applied, saver, sync>>
    \/ Task_Done /\ UNCHANGED <<lockVars, applied, saver, sync>>
    \/ Task_Save /\ UNCHANGED <<lockVars, applied, saver, sync>>
    \/ Task_Cancel /\ UNCHANGED <<lockVars, applied, saver, sync>>
    \/ Task_Request /\ UNCHANGED <<lockVars, applied, saver, sync>>

SpecTask == InitTask /\ [][NextTask]_vars

\* The goroutine is scheduled: a select with a ready case is taken and a save
\* begun comes to its end.
SpecTaskFair ==
    /\ SpecTask
    /\ WF_vars(Task_Signal /\ UNCHANGED <<lockVars, applied, saver, sync>>)
    /\ WF_vars(Task_Done /\ UNCHANGED <<lockVars, applied, saver, sync>>)
    /\ WF_vars(Task_Save /\ UNCHANGED <<lockVars, applied, saver, sync>>)

(***************************************************************************)
(* The round trip of the state through the file: saveStateWithLock of an   *)
(* instance into an empty or absent state file (main.go:732-778), then     *)
(* loadState of a fresh instance (main.go:872-924).  The document written  *)
(* is applied.doc, the caches of the fresh instance are applied.result.    *)
(***************************************************************************)
DecimalDigits == <<"0", "1", "2", "3", "4", "5", "6", "7", "8", "9">>

\* encoding/json of an unsigned number (main.go:766): its decimal digits.
RECURSIVE Digits(_)
Digits(n) ==
    IF n < 10 THEN <<DecimalDigits[n + 1]>>
    ELSE Append(Digits(n \div 10), DecimalDigits[(n % 10) + 1])

\* encoding/json reads an unsigned number back (main.go:900).
RECURSIVE Number(_)
Number(ds) ==
    LET last == CHOOSE d \in 0..9 : DecimalDigits[d + 1] = ds[Len(ds)]
    IN  IF Len(ds) = 1 THEN last
        ELSE 10 * Number(SubSeq(ds, 1, Len(ds) - 1)) + last

\* encoding/json of a bool (main.go:766) and back (main.go:900).
BoolText(b) == IF b THEN "true" ELSE "false"

Bool(text) == text = "true"

\* json.Marshal(state) (main.go:766): an object per map, a member per key.
Marshal(st) ==
    [Rate |-> {<<k, Digits(st.Rate[k])>> : k \in DOMAIN st.Rate},
     Bots |-> {<<k, BoolText(st.Bots[k])>> : k \in DOMAIN st.Bots},
     Verified |-> {<<k, BoolText(st.Verified[k])>> : k \in DOMAIN st.Verified}]

\* The value of member k of a JSON object.
Member(object, k) == (CHOOSE e \in object : e[1] = k)[2]

\* json.Unmarshal(fileContent, &state) (main.go:899-900)
Unmarshal(doc) ==
    [Rate |-> [k \in {e[1] : e \in doc.Rate} |-> Number(Member(doc.Rate, k))],
     Bots |-> [k \in {e[1] : e \in doc.Bots} |-> Bool(Member(doc.Bots, k))],
     Verified |-> [k \in {e[1] : e \in doc.Verified} |->
                     Bool(Member(doc.Verified, k))]]

\* No document: the state file is empty or absent.
NoDoc == [Rate |-> {}, Bots |-> {}, Verified |-> {}]

\* The caches of a new instance (main.go:217-219).
Fresh == [rate |-> [k \in Subnets |-> NoCount],
          bot |-> [k \in IPs |-> NoFlag],
          ver |-> [k \in IPs |-> NoFlag],
          sig |-> 0, sinceReload |-> ReloadTicks]

\* What the saving instance may hold: entries in their last tick and entries
\* with a tick more to live.
SomeCounts == {NoCount, [v |-> 1, ttl |-> 0], [v |-> MaxCount, ttl |-> 1]}

SomeVerdicts == {NoFlag, [v |-> TRUE, ttl |-> 0], [v |-> FALSE, ttl |-> 1]}

SomeMarks == {NoFlag, [v |-> TRUE, ttl |-> 0], [v |-> TRUE, ttl |-> 1]}

InitRound ==
    /\ LockIdle
    /\ saver = NoSavers
    /\ task = NoTask
    /\ sync = NoSync
    /\ persist = TRUE
    /\ onPage = FALSE
    /\ rateCache \in [Subnets -> SomeCounts]
    /\ botCache \in [IPs -> SomeVerdicts]
    /\ verifiedCache \in [IPs -> SomeMarks]
    /\ stateChanged = 0
    /\ sinceReload = 0
    /\ disk = EmptyState
    /\ regs = [k \in Subnets |-> 0]
    /\ out = NoOut
    /\ applied = [fn |-> "roundtrip", stage |-> "memory", doc |-> NoDoc,
                  result |-> Fresh]

\* A tick passes before the save.
Round_Elapse ==
    /\ applied.fn = "roundtrip"
    /\ applied.stage = "memory"
    /\ Elapse
    /\ UNCHANGED applied

\* main.go:732-778: saveStateWithLock; without the write lock nothing is
\* written.
Round_Save ==
    /\ applied.fn = "roundtrip"
    /\ applied.stage = "memory"
    /\ \E readOK \in BOOLEAN, writeOK \in BOOLEAN :
          LET currentState == readStateFromFile(readOK)
              newState == GetState(rateCache, botCache, verifiedCache)
              reconciledState == reconcileStates(currentState, newState)
          IN  /\ disk' = IF writeOK THEN reconciledState ELSE disk
              /\ applied' = [applied EXCEPT
                                !.stage = IF writeOK THEN "saved" ELSE "unsaved",
                                !.doc = IF writeOK THEN Marshal(reconciledState)
                                        ELSE @]
    /\ UNCHANGED <<persist, onPage, rateCache, botCache, verifiedCache, stateChanged,
                   sinceReload, regs, out>>

\* main.go:872-924: loadState of a new instance; without the lock nothing is
\* loaded.
Round_Load ==
    /\ applied.fn = "roundtrip"
    /\ applied.stage = "saved"
    /\ \E lockOK \in BOOLEAN :
          applied' = [applied EXCEPT
                        !.stage = IF lockOK THEN "loaded" ELSE "unloaded",
                        !.result = IF lockOK THEN loadState(Fresh, Unmarshal(applied.doc))
                                   ELSE @]
    /\ UNCHANGED httpVars

NextRound ==
    \/ Round_Elapse /\ UNCHANGED <<lockVars, saver, task, sync>>
    \/ Round_Save /\ UNCHANGED <<lockVars, saver, task, sync>>
    \/ Round_Load /\ UNCHANGED <<lockVars, saver, task, sync>>

SpecRound == InitRound /\ [][NextRound]_vars

(***************************************************************************)
(* reloadStateFromFile (main.go:949-988) on its own: an instance with any  *)
(* of the cache contents above, a state file that is absent or holds what  *)
(* a sibling saved, and a read that gets the file's state or does not      *)
(* (the file lock is not acquired, or the content cannot be parsed).       *)
(***************************************************************************)
InitReload ==
    /\ LockIdle
    /\ saver = NoSavers
    /\ task = NoTask
    /\ sync = NoSync
    /\ persist = TRUE
    /\ onPage = FALSE
    /\ rateCache \in [Subnets -> SomeCounts]
    /\ botCache \in [IPs -> SomeVerdicts]
    /\ verifiedCache \in [IPs -> SomeMarks]
    /\ stateChanged = 0
    /\ sinceReload = ReloadTicks
    /\ disk \in {EmptyState} \cup SiblingStates
    /\ regs = [k \in Subnets |-> 0]
    /\ out = NoOut
    /\ applied \in [fn : {"reloadStateFromFile"}, lockOK : BOOLEAN, done : {FALSE},
                    result : {Fresh}]

ApplyReload ==
    /\ applied.fn = "reloadStateFromFile"
    /\ ~applied.done
    /\ applied' = [applied EXCEPT
                     !.done = TRUE,
                     !.result = reloadStateFromFile(Mem, applied.lockOK)]
    /\ UNCHANGED <<lockVars, httpVars, saver, task, sync>>

NextReload == ApplyReload

SpecReload == InitReload /\ [][NextReload]_vars

(***************************************************************************)
(* The goroutines of one process around stateMutex: two that handle        *)
(* requests (reloadStateIfNeeded, main.go:926-947, and reloadStateFromFile *)
(* up to its read of the file, main.go:949-958), the second of which also  *)
(* runs the saves (saveStateWithLock, main.go:732-748), and a sibling      *)
(* process, 3, that takes and releases the file lock for its own saves.    *)
(* sync.mutex is 0 or the goroutine that holds stateMutex for writing;     *)
(* sync.last is lastStateReload and sync.clock the time, in ticks of 5     *)
(* seconds.  sync.th[t].pc is "idle", "check" (a request has arrived and   *)
(* wants the read lock), "stamp" (lastReload read, time.Now() next),       *)
(* "serve" (reloadStateIfNeeded has returned), "claim" (wants the write      *)
(* lock for the second check), "reload" (wants                              *)
(* the write lock of reloadStateFromFile), "reloading" or "saving" (holds  *)
(* it); saver[t] is where the goroutine stands with the file.  Ghosts:     *)
(* sync.stamps, the timestamps of the requests that called                 *)
(* reloadStateFromFile, and th[t].refused, the second check turned the     *)
(* request away.  No minute passes: no marker is stale.                    *)
(***************************************************************************)
\* The process whose goroutines are looked at, and the sibling process.
Goroutines == Pair

Sibling == CHOOSE p \in Procs : p \notin Goroutines

\* How far the clock runs.
MaxClock == ReloadTicks

\* main.go:933: the first check, on the lastReload read under the read lock.
Due(now, lastReload) == ~(now - lastReload < ReloadTicks)

\* Mutant of StillDue: the second check is left out.
StillDue_Unchecked(now, lastStateReload) == TRUE

\* main.go:939: the second check, under the write lock.
StillDue(now, lastStateReload) == ~(now - lastStateReload < ReloadTicks)

\* Mutant of Returned: stateMutex is given up as soon as the write has the
\* file lock.
Returned_Early(p) == saver'[p].pc \in {"idle", "wheld"}

\* main.go:734 and :951: the deferred stateMutex.Unlock() runs when the
\* function returns, after the deferred Unlock of the file lock.
Returned(p) == saver'[p].pc = "idle"

\* A request arrives at goroutine t (main.go:288-289).
Sync_Arrive(t) ==
    /\ sync.th[t].pc = "idle"
    /\ sync' = [sync EXCEPT !.th[t].pc = "check", !.th[t].refused = FALSE]
    /\ UNCHANGED <<lockVars, saver, disk>>

\* main.go:928-930: RLock, which waits while stateMutex is write-held, the
\* read of lastStateReload, RUnlock.
Sync_Check(t) ==
    /\ sync.th[t].pc = "check"
    /\ sync.mutex = 0
    /\ sync' = [sync EXCEPT !.th[t].pc = "stamp", !.th[t].seen = sync.last]
    /\ UNCHANGED <<lockVars, saver, disk>>

\* main.go:932-935: time.Now() and the first check.
Sync_Stamp(t) ==
    /\ sync.th[t].pc = "stamp"
    /\ sync' = [sync EXCEPT
                   !.th[t].now = sync.clock,
                   !.th[t].pc = IF Due(sync.clock, sync.th[t].seen)
                                THEN "claim" ELSE "serve"]
    /\ UNCHANGED <<lockVars, saver, disk>>

\* main.go:938-946: Lock, the second check, lastStateReload = now, Unlock,
\* and the call of reloadStateFromFile.
Sync_Claim(t) ==
    /\ sync.th[t].pc = "claim"
    /\ sync.mutex = 0
    /\ sync' = IF StillDue(sync.th[t].now, sync.last)
               THEN [sync EXCEPT !.last = sync.th[t].now,
                                 !.th[t].pc = "reload",
                                 !.stamps = Append(@, sync.th[t].now)]
               ELSE [sync EXCEPT !.th[t].pc = "serve", !.th[t].refused = TRUE]
    /\ UNCHANGED <<lockVars, saver, disk>>

\* main.go:950: stateMutex.Lock() of reloadStateFromFile.
Sync_ReloadBegin(t) ==
    /\ sync.th[t].pc = "reload"
    /\ sync.mutex = 0
    /\ sync' = [sync EXCEPT !.mutex = t, !.th[t].pc = "reloading"]
    /\ UNCHANGED <<lockVars, saver, disk>>

\* main.go:953 with :780-813: readStateFromFile inside the reload, a step of
\* its Lock() call or the read with the deferred Unlock.
Sync_ReloadRead(t) ==
    /\ sync.th[t].pc = "reloading"
    /\ sync.mutex = t
    /\ \/ saver[t].pc = "idle" /\ Save_LockEnter(t)
       \/ saver[t].pc = "rlock" /\ Save_LockStep(t)
       \/ Save_Read(t)
    /\ UNCHANGED sync

\* main.go:954-988: the rest of reloadStateFromFile, which uses no lock, and
\* its return.
Sync_ReloadEnd(t) ==
    /\ sync.th[t].pc = "reloading"
    /\ sync.mutex = t
    /\ saver[t].pc = "between"
    /\ saver' = [saver EXCEPT ![t] = [@ EXCEPT !.pc = "idle", !.cur = EmptyState,
                                               !.read = "none"]]
    /\ sync' = [sync EXCEPT !.mutex = IF Returned(t) THEN 0 ELSE @,
                            !.th[t].pc = "serve"]
    /\ UNCHANGED <<lockVars, disk>>

\* main.go:292-338: the rest of ServeHTTP, which takes neither stateMutex
\* nor the file lock.
Sync_Serve(t) ==
    /\ sync.th[t].pc = "serve"
    /\ sync' = [sync EXCEPT !.th[t].pc = "idle"]
    /\ UNCHANGED <<lockVars, saver, disk>>

\* main.go:733: stateMutex.Lock() of saveStateWithLock, in the goroutine of
\* saveStateOnChange.
Sync_SaveBegin(t) ==
    /\ t = 2
    /\ sync.th[t].pc = "idle"
    /\ sync.mutex = 0
    /\ sync' = [sync EXCEPT !.mutex = t, !.th[t].pc = "saving"]
    /\ UNCHANGED <<lockVars, saver, disk>>

\* main.go:737-747: a step of the save, up to its return.
Sync_Save(t) ==
    /\ sync.th[t].pc = "saving"
    /\ sync.mutex = t
    /\ \/ Save_LockEnter(t)
       \/ Save_LockStep(t)
       \/ Save_Read(t)
       \/ Save_Write(t)
    /\ sync' = IF Returned(t)
               THEN [sync EXCEPT !.mutex = 0, !.th[t].pc = "idle"]
               ELSE sync

\* A step of the sibling process with the file lock: one exclusive-create
\* attempt, as every iteration of its Lock() makes, or its Unlock().
Sync_Sibling ==
    /\ \/ ~acquired[Sibling] /\ TryLock(Sibling)
       \/ acquired[Sibling] /\ Unlock(Sibling)
    /\ UNCHANGED <<saver, disk, sync>>

\* Five seconds pass.
Sync_Tick ==
    /\ sync.clock < MaxClock
    /\ sync' = [sync EXCEPT !.clock = @ + 1]
    /\ UNCHANGED <<lockVars, saver, disk>>

\* lastStateReload is the zero time at the start (main.go:75): a reload is
\* due.
InitSync ==
    /\ active = Procs
    /\ marker = NoFile
    /\ acquired = [p \in Procs |-> FALSE]
    /\ pc = [p \in Procs |-> "idle"]
    /\ i = [p \in Procs |-> 0]
    /\ g = [p \in Procs |-> NoCall]
    /\ aged = [p \in Procs |-> FALSE]
    /\ ev = NoEv
    /\ HttpIdle
    /\ applied = NotApplied
    /\ saver = [p \in Procs |->
                  IF p \in Goroutines
                  THEN [pc |-> "idle", cur |-> EmptyState, mem |-> Counted(1),
                        read |-> "none"]
                  ELSE NoSavers[p]]
    /\ task = NoTask
    /\ sync = [mutex |-> 0, last |-> 0 - ReloadTicks, clock |-> 0,
               th |-> [t \in Goroutines |->
                         [pc |-> "idle", seen |-> 0, now |-> 0, refused |-> FALSE]],
               stamps |-> <<>>]

NextSync ==
    \/ \E t \in Goroutines : Sync_Arrive(t) /\ UNCHANGED <<persist, onPage, rateCache, botCache, verifiedCache, stateChanged, sinceReload, regs, out, applied, task>>
    \/ \E t \in Goroutines : Sync_Check(t) /\ UNCHANGED <<persist, onPage, rateCache, botCache, verifiedCache, stateChanged, sinceReload, regs, out, applied, task>>
    \/ \E t \in Goroutines : Sync_Stamp(t) /\ UNCHANGED <<persist, onPage, rateCache, botCache, verifiedCache, stateChanged, sinceReload, regs, out, applied, task>>
    \/ \E t \in Goroutines : Sync_Claim(t) /\ UNCHANGED <<persist, onPage, rateCache, botCache, verifiedCache, stateChanged, sinceReload, regs, out, applied, task>>
    \/ \E t \in Goroutines : Sync_ReloadBegin(t) /\ UNCHANGED <<persist, onPage, rateCache, botCache, verifiedCache, stateChanged, sinceReload, regs, out, applied, task>>
    \/ \E t \in Goroutines : Sync_ReloadRead(t)
    \/ \E t \in Goroutines : Sync_ReloadEnd(t) /\ UNCHANGED <<persist, onPage, rateCache, botCache, verifiedCache, stateChanged, sinceReload, regs, out, applied, task>>
    \/ \E t \in Goroutines : Sync_Serve(t) /\ UNCHANGED <<persist, onPage, rateCache, botCache, verifiedCache, stateChanged, sinceReload, regs, out, applied, task>>
    \/ \E t \in Goroutines : Sync_SaveBegin(t) /\ UNCHANGED <<persist, onPage, rateCache, botCache, verifiedCache, stateChanged, sinceReload, regs, out, applied, task>>
    \/ \E t \in Goroutines : Sync_Save(t)
    \/ Sync_Sibling /\ UNCHANGED <<persist, onPage, rateCache, botCache, verifiedCache, stateChanged, sinceReload, regs, out, applied, task>>
    \/ Sync_Tick /\ UNCHANGED <<persist, onPage, rateCache, botCache, verifiedCache, stateChanged, sinceReload, regs, out, applied, task>>

SpecSync == InitSync /\ [][NextSync]_vars

(***************************************************************************)
(* Two goroutines that handle requests of one instance with a state file,  *)
(* call by call on the caches.  A request goes through                     *)
(* reloadStateIfNeeded as above; reloadStateFromFile runs under stateMutex *)
(* in three steps, the snapshot (main.go:953-964), the Flush of the three  *)
(* caches (:967-969) and the Sets (:972-982), with saver[t].pc "off",      *)
(* "between" and "flushed" and the reconciled state in saver[t].mem.  The  *)
(* rest of ServeHTTP takes no lock: shouldApply, registerRequest and the   *)
(* answer of a page request are a step each ("serve", "register",          *)
(* "answer"), a verification is one step.  All of it happens within one    *)
(* window: no entry expires.  Ghosts in applied: registered, the requests  *)
(* registerRequest has counted for a subnet; over, the counter of the      *)
(* subnet has exceeded the limit; marked, a verification has marked the    *)
(* client.                                                                 *)
(***************************************************************************)
\* A page request of client 1.1, a verification of 1.1 the provider accepts,
\* and a page request of the exempt client 10.1.
RaceRequests ==
    {Request(<<1, 1>>, "GET", <<"/", "a">>, <<"m">>, FALSE, <<>>, "none", <<>>, TRUE),
     Request(<<1, 1>>, "POST", ChallengePath, <<"m">>, FALSE, <<"t">>, "success",
             <<>>, TRUE),
     Request(<<10, 1>>, "GET", <<"/", "a">>, <<"m">>, FALSE, <<>>, "none", <<>>, TRUE)}

\* The counter of subnet k is over the limit in cache c.
Over(c, k) == Live(c[k]) /\ c[k].v > RateLimit

\* The ghosts after a step that leaves the rate cache as c.
Noted(c) == [applied EXCEPT !.over = [k \in Subnets |-> @[k] \/ Over(c, k)]]

\* A request arrives at goroutine t (main.go:286-290).
Race_Arrive(t) ==
    /\ sync.th[t].pc = "idle"
    /\ \E req \in RaceRequests :
          sync' = [sync EXCEPT !.th[t].pc = "check",
                               !.th[t].refused = FALSE,
                               !.th[t].req = req,
                               !.th[t].by = "-",
                               !.th[t].over = applied.over[getClientIP(req).subnet]]
    /\ UNCHANGED <<rateCache, botCache, verifiedCache, stateChanged, applied, saver>>

\* main.go:953-964: the file is read (or is not, without the file lock); an
\* empty file state ends the reload, otherwise the caches' items are taken
\* and reconciled with it.
Race_Snapshot(t) ==
    /\ sync.th[t].pc = "reloading"
    /\ sync.mutex = t
    /\ saver[t].pc = "off"
    /\ \E lockOK \in BOOLEAN :
          LET fileState == readStateFromFile(lockOK)
              memoryState == GetState(rateCache, botCache, verifiedCache)
          IN  IF /\ DOMAIN fileState.Rate = {}
                 /\ DOMAIN fileState.Bots = {}
                 /\ DOMAIN fileState.Verified = {}
              THEN /\ sync' = [sync EXCEPT !.mutex = 0, !.th[t].pc = "serve"]
                   /\ UNCHANGED saver
              ELSE /\ saver' = [saver EXCEPT ![t] =
                                  [@ EXCEPT !.pc = "between",
                                            !.cur = fileState,
                                            !.mem = reconcileStates(fileState,
                                                                    memoryState)]]
                   /\ UNCHANGED sync
    /\ UNCHANGED <<rateCache, botCache, verifiedCache, stateChanged, applied>>

\* main.go:967-969
Race_Flush(t) ==
    /\ sync.th[t].pc = "reloading"
    /\ sync.mutex = t
    /\ saver[t].pc = "between"
    /\ rateCache' = Flushed(rateCache, NoCount)
    /\ botCache' = Flushed(botCache, NoFlag)
    /\ verifiedCache' = Flushed(verifiedCache, NoFlag)
    /\ saver' = [saver EXCEPT ![t].pc = "flushed"]
    /\ UNCHANGED <<stateChanged, applied, sync>>

\* main.go:972-988: the Sets, and the return with stateMutex given up.
Race_Install(t) ==
    /\ sync.th[t].pc = "reloading"
    /\ sync.mutex = t
    /\ saver[t].pc = "flushed"
    /\ rateCache' = SetAll(rateCache, saver[t].mem.Rate)
    /\ botCache' = SetAll(botCache, saver[t].mem.Bots)
    /\ verifiedCache' = SetAll(verifiedCache, saver[t].mem.Verified)
    /\ saver' = [saver EXCEPT ![t] = NoSavers[t]]
    /\ sync' = [sync EXCEPT !.mutex = 0, !.th[t].pc = "serve"]
    /\ applied' = Noted(rateCache')
    /\ UNCHANGED stateChanged

\* main.go:292-322: a verification is carried out (main.go:360-404); a page
\* request goes through shouldApply and is passed on when that refuses it.
Race_Serve(t) ==
    /\ sync.th[t].pc = "serve"
    /\ LET req == sync.th[t].req
           clientIP == getClientIP(req).ip
       IN  IF req.path = ChallengePath /\ req.method = "POST"
           THEN LET v == verifyChallengePage(Mem, req, clientIP)
                IN  /\ verifiedCache' = v.st.ver
                    /\ stateChanged' = v.st.sig
                    /\ applied' = [applied EXCEPT !.marked[clientIP] =
                                                    @ \/ v.code = 302]
                    /\ sync' = [sync EXCEPT !.th[t].pc = "idle",
                                            !.th[t].by = "verify"]
                    /\ UNCHANGED <<rateCache, botCache>>
           ELSE LET a == shouldApply(Mem, req, clientIP)
                IN  /\ botCache' = a.st.bot
                    /\ stateChanged' = a.st.sig
                    /\ sync' = IF a.apply
                               THEN [sync EXCEPT !.th[t].pc = "register"]
                               ELSE [sync EXCEPT !.th[t].pc = "idle",
                                                 !.th[t].by = "next"]
                    /\ UNCHANGED <<rateCache, verifiedCache, applied>>
    /\ UNCHANGED saver

\* main.go:323 with :584-597
Race_Register(t) ==
    /\ sync.th[t].pc = "register"
    /\ LET ipRange == getClientIP(sync.th[t].req).subnet
           r == registerRequest(Mem, ipRange)
       IN  /\ r.rate[ipRange].v <= MaxCount
           /\ applied.registered[ipRange] <= MaxCount
           /\ rateCache' = r.rate
           /\ stateChanged' = r.sig
           /\ applied' = [Noted(r.rate) EXCEPT !.registered[ipRange] =
                              IF r.rate = rateCache THEN @ ELSE @ + 1]
    /\ sync' = [sync EXCEPT !.th[t].pc = "answer"]
    /\ UNCHANGED <<botCache, verifiedCache, saver>>

\* main.go:325-337: trippedRateLimit, then the next handler or the challenge.
Race_Answer(t) ==
    /\ sync.th[t].pc = "answer"
    /\ LET ipRange == getClientIP(sync.th[t].req).subnet
       IN  sync' = [sync EXCEPT
                      !.th[t].pc = "idle",
                      !.th[t].by = IF ~trippedRateLimit(Mem, ipRange) THEN "next"
                                   ELSE IF onPage THEN "challenge"
                                   ELSE "redirect"]
    /\ UNCHANGED <<rateCache, botCache, verifiedCache, stateChanged, applied, saver>>

\* The instance has loaded what a sibling left in the state file
\* (main.go:271-273); the requests are served by two goroutines.
InitRace ==
    /\ NewCaptchaProtect(TRUE, SiblingStates)
    /\ onPage = FALSE
    /\ task = NoTask
    /\ applied = [fn |-> "race",
                  registered |-> [k \in Subnets |-> 0],
                  over |-> [k \in Subnets |-> Over(rateCache, k)],
                  marked |-> [ip \in IPs |-> FALSE]]
    /\ sync = [mutex |-> 0, last |-> 0 - ReloadTicks, clock |-> 0,
               th |-> [t \in Goroutines |->
                         [pc |-> "idle", seen |-> 0, now |-> 0, refused |-> FALSE,
                          req |-> CHOOSE req \in RaceRequests : TRUE,
                          by |-> "-", over |-> FALSE]],
               stamps |-> <<>>]

NextRace ==
    \/ \E t \in Goroutines : Race_Arrive(t) /\ UNCHANGED <<lockVars, persist, onPage, sinceReload, disk, regs, out, task>>
    \/ \E t \in Goroutines : Sync_Check(t) /\ UNCHANGED <<persist, onPage, rateCache, botCache, verifiedCache, stateChanged, sinceReload, regs, out, applied, task>>
    \/ \E t \in Goroutines : Sync_Stamp(t) /\ UNCHANGED <<persist, onPage, rateCache, botCache, verifiedCache, stateChanged, sinceReload, regs, out, applied, task>>
    \/ \E t \in Goroutines : Sync_Claim(t) /\ UNCHANGED <<persist, onPage, rateCache, botCache, verifiedCache, stateChanged, sinceReload, regs, out, applied, task>>
    \/ \E t \in Goroutines : Sync_ReloadBegin(t) /\ UNCHANGED <<persist, onPage, rateCache, botCache, verifiedCache, stateChanged, sinceReload, regs, out, applied, task>>
    \/ \E t \in Goroutines : Race_Snapshot(t) /\ UNCHANGED <<lockVars, persist, onPage, sinceReload, disk, regs, out, task>>
    \/ \E t \in Goroutines : Race_Flush(t) /\ UNCHANGED <<lockVars, persist, onPage, sinceReload, disk, regs, out, task>>
    \/ \E t \in Goroutines : Race_Install(t) /\ UNCHANGED <<lockVars, persist, onPage, sinceReload, disk, regs, out, task>>
    \/ \E t \in Goroutines : Race_Serve(t) /\ UNCHANGED <<lockVars, persist, onPage, sinceReload, disk, regs, out, task>>
    \/ \E t \in Goroutines : Race_Register(t) /\ UNCHANGED <<lockVars, persist, onPage, sinceReload, disk, regs, out, task>>
    \/ \E t \in Goroutines : Race_Answer(t) /\ UNCHANGED <<lockVars, persist, onPage, sinceReload, disk, regs, out, task>>
    \/ Sync_Tick /\ UNCHANGED <<persist, onPage, rateCache, botCache, verifiedCache, stateChanged, sinceReload, regs, out, applied, task>>

SpecRace == InitRace /\ [][NextRace]_vars

(***************************************************************************)
(* An instance with a state file over several windows: the requests of a   *)
(* client and of an exempt client, the saves they signal, and the clock.   *)
(* applied.age is a ghost: for each subnet, the ticks since a request      *)
(* created its counter (main.go:585), -1 before any, and no further than   *)
(* one tick past the window.                                               *)
(***************************************************************************)
\* A page request of client 1.1 and one of the exempt client 10.1.
WindowRequests ==
    {req \in Requests : /\ req.method = "GET"
                        /\ req.path = <<"/", "a">>
                        /\ req.ua = <<"m">>
                        /\ req.ip \in {<<1, 1>>, <<10, 1>>}}

\* ServeHTTP (main.go:286-338) of such a request, the response returned.
Window_Serve ==
    \E req \in WindowRequests :
        LET res == Serve(Mem, req)
            pre == Reloaded(Mem, req)
            s == getClientIP(req).subnet
        IN  /\ applied.fn = "window"
            /\ out = NoOut
            /\ \A k \in Subnets : res.st.rate[k].v <= MaxCount
            /\ rateCache' = res.st.rate
            /\ botCache' = res.st.bot
            /\ verifiedCache' = res.st.ver
            /\ stateChanged' = res.st.sig
            /\ sinceReload' = res.st.sinceReload
            /\ regs' = Registered(pre, res, s)
            /\ applied' = [applied EXCEPT !.age =
                              [k \in Subnets |->
                                 IF k = s /\ res.registered /\ ~Live(pre.rate[k])
                                 THEN 0 ELSE @[k]]]
            /\ UNCHANGED <<persist, onPage, disk, out>>

\* The save the signal asks for.
Window_Save ==
    /\ applied.fn = "window"
    /\ SaveState
    /\ UNCHANGED applied

\* A tick passes.
Window_Elapse ==
    /\ applied.fn = "window"
    /\ Elapse
    /\ applied' = [applied EXCEPT !.age =
                      [k \in Subnets |->
                         IF @[k] >= 0 /\ @[k] <= Window THEN @[k] + 1 ELSE @[k]]]

InitWindow ==
    /\ NewCaptchaProtect(TRUE, {EmptyState})
    /\ applied = [fn |-> "window", age |-> [k \in Subnets |-> -1]]
    /\ task = NoTask
    /\ sync = NoSync

NextWindow ==
    \/ Window_Serve /\ UNCHANGED <<lockVars, saver, task, sync>>
    \/ Window_Save /\ UNCHANGED <<lockVars, saver, task, sync>>
    \/ Window_Elapse /\ UNCHANGED <<lockVars, saver, task, sync>>

SpecWindow == InitWindow /\ [][NextWindow]_vars

(***************************************************************************)
(* Steps of the file lock, as the properties read them.                    *)
(***************************************************************************)
\* The step is one in which the Lock() call of p returns res.
LockReturns(p, res) ==
    /\ pc[p] # "idle"
    /\ pc'[p] = "idle"
    /\ ev'.op = "Lock" /\ ev'.p = p /\ ev'.res = res

\* The step is p's os.Remove inside Lock(), and it deleted the marker.
LockRemoves(p) ==
    /\ pc[p] = "remove"
    /\ pc'[p] # "remove"
    /\ Exists(marker)
    /\ ~Exists(marker')

\* The step is p's exclusive-create attempt inside Lock().
LockAttempts(p) ==
    /\ pc[p] = "open"
    /\ pc'[p] # "open" \/ ev'.p = p

(***************************************************************************)
(* C1.  Mutual exclusion: at most one FileLock is in the acquired state    *)
(* (acquired and not yet unlocked) at any time.                            *)
(***************************************************************************)
C1_MutualExclusion == Cardinality({p \in Procs : acquired[p]}) <= 1

(***************************************************************************)
(* C2.  Lock() never deletes a marker file that is less than 5 minutes     *)
(* old: every os.Remove of Lock() that deletes a marker deletes one older  *)
(* than the staleness threshold.                                           *)
(***************************************************************************)
C2_NeverRemovesFresh ==
    [][\A p \in Procs : LockRemoves(p) => marker.age > StaleMinutes]_vars

(***************************************************************************)
(* C3.  Stale-lock recovery.  A Lock() call that begins on a marker older  *)
(* than 5 minutes, and during which no other process changes the marker,   *)
(* never sleeps: it removes the marker and its second attempt returns      *)
(* success on a marker the caller created.  In every Lock() call a         *)
(* successful removal is followed by the next attempt at once, and an      *)
(* attempt that finds the slot taken goes on to the staleness test of the  *)
(* normal retry loop.  (An attempt may still fail on a file-system error.) *)
(***************************************************************************)
C3_StaleRecovery ==
    [][\A p \in Procs :
         /\ g[p].quiet => pc'[p] # "sleep"
         /\ g[p].quiet /\ pc[p] # "idle" /\ pc'[p] = "idle" =>
              \/ ev'.res = "createfail"
              \/ /\ LockReturns(p, "ok")
                 /\ i[p] = 1
                 /\ g[p].stole
                 /\ marker' = NewMarker(p)
                 /\ acquired'[p]
         /\ LockRemoves(p) /\ Budget(p) => pc'[p] = "open" /\ i'[p] = i[p] + 1
         /\ LockAttempts(p) /\ Exists(marker) =>
              pc'[p] = "stat" \/ ev'.res = "createfail"]_vars

\* A Lock() call has returned success after removing a marker older than
\* 5 minutes.
C3_Witness == ev.op = "Lock" /\ ev.res = "ok" /\ ev.stole

(***************************************************************************)
(* C4.  Blocking acquisition, of two FileLocks on one path: a Lock() call  *)
(* does not return success while the other FileLock has held the lock ever *)
(* since the call began (a holder whose marker has grown older than        *)
(* 5 minutes is left out: the code reclaims such a marker on purpose), and *)
(* an attempt made when no marker exists, the holder having called         *)
(* Unlock(), returns success.                                              *)
(***************************************************************************)
C4_BlocksWhileHeld ==
    [][\A p \in Procs :
         /\ LockReturns(p, "ok") => \A q \in g[p].since : aged[q]
         /\ LockAttempts(p) /\ ~Exists(marker) =>
              \/ ev'.res = "createfail"
              \/ LockReturns(p, "ok") /\ acquired'[p]]_vars

(***************************************************************************)
(* C5.  Lock() makes at most maxRetries attempts; when every attempt met a *)
(* fresh marker the call returns the timeout error, leaves the marker as   *)
(* it is and leaves the FileLock not acquired.  The timeout error is       *)
(* returned after exactly maxRetries attempts and never with acquired set  *)
(* by the call.                                                            *)
(***************************************************************************)
C5_Timeout ==
    [][\A p \in Procs :
         /\ i'[p] < maxRetries
         /\ pc[p] = "sleep" /\ pc'[p] # "sleep" /\ g[p].onlyFresh /\ ~Budget(p) =>
              /\ LockReturns(p, "timeout")
              /\ marker' = marker
              /\ ~acquired'[p]
         /\ LockReturns(p, "timeout") =>
              /\ i[p] = maxRetries - 1
              /\ ~acquired'[p]
              /\ ev'.res \notin {"createfail", "held", "already", "ok"}]_vars

\* A Lock() call has timed out while another FileLock's marker is in place.
C5_Witness ==
    /\ ev.op = "Lock" /\ ev.res = "timeout" /\ ~ev.stole
    /\ Exists(marker) /\ marker.pid # ev.p
    /\ ~acquired[ev.p]

(***************************************************************************)
(* C6.  Unlock() is idempotent: on a FileLock that does not hold the lock  *)
(* (never acquired, or already unlocked) it returns no error, removes no   *)
(* file and changes no lock state; on a FileLock that holds the lock it    *)
(* returns no error and afterwards no marker file exists.                  *)
(***************************************************************************)
C6_UnlockIdempotent ==
    [][ev'.op = "Unlock" =>
         /\ ev'.res = "nil"
         /\ ~acquired'[ev'.p]
         /\ ~acquired[ev'.p] => marker' = marker /\ acquired' = acquired
         /\ acquired[ev'.p] => ~Exists(marker')]_vars

\* Unlock() has returned on a FileLock that did not hold the lock, while the
\* marker of another FileLock exists.
C6_Witness ==
    /\ ev.op = "Unlock" /\ ~ev.was
    /\ Exists(marker) /\ marker.pid # ev.p

(***************************************************************************)
(* Steps of the middleware, as the properties read them.                   *)
(***************************************************************************)
\* A request is served in this step; out' tells which and how.
Served == out = NoOut /\ out' # NoOut

\* The request of this step got as far as shouldApply (main.go:319).
Screened == Served /\ out'.by \in {"next", "redirect", "challenge"}

\* The request of this step was a verification (main.go:296, :307).
Verifying == Served /\ out'.by = "verify"

\* The verification of this step carried a token the provider accepted.
Passing == out'.token # <<>> /\ out'.reply = "success"

\* What the instance held when the handler of this step was past its reload.
AfterReload == Reloaded(Mem, out')

\* Where a passed verification sends the client, destination by destination.
Landing(dest) ==
    CASE dest = <<>> -> <<"/">>
      [] dest = <<"%", "2", "F", "a">> -> <<"/", "a">>
      [] dest = <<"/", "z">> -> <<"/", "z">>
      [] dest = <<"%", "z">> -> <<"/">>

\* C7 -- Rate threshold.  For a subnet that started with no counter, the k-th
\* protected request registered inside the window is forwarded to the next
\* handler when k <= rateLimit and is challenged when k = rateLimit + 1, the
\* first k for which trippedRateLimit is true.
C7_RateThreshold ==
    [][Served /\ out'.registered /\ regs'[getClientIP(out').subnet] > 0 =>
        LET key == getClientIP(out').subnet
            k == regs'[key]
        IN  /\ (out'.by = "next") <=> (k <= RateLimit)
            /\ (out'.by \in {"redirect", "challenge"}) <=> (k > RateLimit)
            /\ trippedRateLimit(Mem', key) <=> (k > RateLimit)]_vars

\* Request number rateLimit + 1 of a subnet has just been challenged.
C7_Witness ==
    /\ out.registered
    /\ regs[getClientIP(out).subnet] = RateLimit + 1
    /\ out.by \in {"redirect", "challenge"}

C9_VerificationGuard ==
    [][Served =>
        LET marked == [AfterReload.ver EXCEPT ![out'.ip] = [v |-> TRUE, ttl |-> Window]]
        IN  /\ Verifying =>
                /\ (out'.code = 302) <=> Passing
                /\ Passing => verifiedCache' = marked
                /\ Passing => out'.loc = Landing(out'.dest)
            /\ ~(Verifying /\ Passing) => verifiedCache' = AfterReload.ver]_vars

\* A verification passed with a destination that cannot be decoded: the client
\* is marked and sent to /.
C9_Witness ==
    /\ out.by = "verify" /\ out.code = 302
    /\ out.token # <<>> /\ out.reply = "success"
    /\ out.dest = <<"%", "z">> /\ out.loc = <<"/">>
    /\ verifiedCache[out.ip] = [v |-> TRUE, ttl |-> Window]

\* C10 -- Failed verification mutates nothing.  A verification without a
\* token is answered 400, one the provider cannot be reached for or answers
\* undecodably 500, one the provider rejects 403; each leaves the rate, bot
\* and verified caches as the reload left them and puts no signal into the
\* state-change channel.
C10_FailedVerification ==
    [][Verifying /\ ~Passing =>
        /\ out'.code = CASE out'.token = <<>> -> 400
                         [] out'.token # <<>> /\ out'.reply \in {"neterr", "garbage"} -> 500
                         [] out'.token # <<>> /\ out'.reply = "fail" -> 403
        /\ rateCache' = AfterReload.rate
        /\ botCache' = AfterReload.bot
        /\ verifiedCache' = AfterReload.ver
        /\ stateChanged' = stateChanged]_vars

\* The provider rejected the token of an instance that has a state-change
\* channel with nothing pending: 403, the client unmarked, still nothing
\* pending.
C10_Witness ==
    /\ persist
    /\ out.by = "verify" /\ out.code = 403 /\ out.reply = "fail"
    /\ ~Live(verifiedCache[out.ip])
    /\ stateChanged = 0

\* C11 -- Exempt clients are never subject to protection.  For a client
\* address inside an exempt range shouldApply is false for every route,
\* method and user agent, whatever the caches hold; a request of such a client
\* that reaches the protection is forwarded and leaves the rate cache as the
\* reload left it.
C11_ExemptNeverProtected ==
    [][/\ \A ip \in IPs \ Clients, m \in {"GET", "HEAD", "POST", "PUT"},
             path \in Paths, ua \in UserAgents :
             LET req == Request(ip, m, path, ua, FALSE, <<>>, "none", <<>>, TRUE)
             IN  /\ ~shouldApply(Mem, req, ip).apply
                 /\ ~Protect(Mem, req, ip, getClientIP(req).subnet).registered
        /\ Screened /\ out'.ip \notin Clients =>
             /\ out'.by = "next"
             /\ ~out'.registered
             /\ rateCache' = AfterReload.rate]_vars

\* An exempt client asked for a protected page while the counter of its own
\* subnet was over the limit, and was forwarded, the counter untouched.
C11_Witness ==
    /\ out.ip \notin Clients /\ out.ip \in IPs
    /\ out.method = "GET" /\ out.path = <<"/", "a">>
    /\ out.by = "next" /\ ~out.registered
    /\ trippedRateLimit(Mem, getClientIP(out).subnet)

\* The reference predicate of prefix mode, over the configured entries as sets.
RouteReference(protect, exclude, exts, path) ==
    /\ \E r \in Range(protect) : HasPrefix(path, r)
    /\ \A e \in Range(exclude) : ~HasPrefix(path, e)
    /\ \/ TrimDot(Ext(path)) = <<>>
       \/ \E x \in Range(exts) : ToLower(x) = ToLower(TrimDot(Ext(path)))

\* C12 -- Prefix-mode route matching equals the reference predicate.
\* RouteIsProtectedPrefix is true exactly when the path starts with some
\* protectRoutes entry, with no excludeRoutes entry, and has no file extension
\* or one equal, case ignored, to some protectFileExtensions entry; and the
\* lists written back to front give the same result.
C12_PrefixReference ==
    applied.fn = "RouteIsProtectedPrefix" /\ applied.done =>
        /\ applied.result = RouteReference(applied.protect, applied.exclude,
                                           applied.exts, applied.path)
        /\ applied.result = PrefixFrom(Reverse(applied.protect), Reverse(applied.exclude),
                                       Reverse(applied.exts), applied.path, 1)

\* A path with an upper-case extension is found protected under the second of
\* two routes and the second of two extensions.
C12_Witness ==
    /\ applied.fn = "RouteIsProtectedPrefix" /\ applied.done /\ applied.result
    /\ applied.path = <<"/", "a", "/", "x", ".", "H">>
    /\ applied.protect = << <<"/", "c">>, <<"/", "a">> >>
    /\ applied.exts = << <<"p">>, <<"h">> >>

\* reconcileStates has been applied in this state.
Reconciled == applied.fn = "reconcileStates" /\ applied.done

\* The map whose keys are those of either map, a key of both valued by Both.
UnionMap(f, m, r, Both(_, _)) ==
    /\ DOMAIN r = DOMAIN f \cup DOMAIN m
    /\ \A k \in DOMAIN f \ DOMAIN m : r[k] = f[k]
    /\ \A k \in DOMAIN m \ DOMAIN f : r[k] = m[k]
    /\ \A k \in DOMAIN f \cap DOMAIN m : r[k] = Both(f[k], m[k])

\* C13 -- Reconciliation rule.  The rate map of reconcileStates(file, memory)
\* has the keys of both sides, each subnet with the larger of its two counts
\* and a count of one side only kept as is; the bot and verified maps have the
\* keys of both sides, a key of both with memory's value.
C13_ReconcileRule ==
    Reconciled =>
        /\ UnionMap(applied.file.Rate, applied.memory.Rate, applied.result.Rate,
                    LAMBDA fv, mv : CHOOSE x \in {fv, mv} : x >= fv /\ x >= mv)
        /\ UnionMap(applied.file.Bots, applied.memory.Bots, applied.result.Bots,
                    LAMBDA fv, mv : mv)
        /\ UnionMap(applied.file.Verified, applied.memory.Verified,
                    applied.result.Verified, LAMBDA fv, mv : mv)

\* File and memory overlap on a subnet the file counts higher and on an
\* address they give different verdicts, and each has a key the other lacks.
C13_Witness ==
    /\ Reconciled
    /\ applied.file.Rate = (<<1, 0>> :> RateLimit + 1 @@ <<10, 0>> :> 1)
    /\ applied.memory.Rate = (<<1, 0>> :> 1)
    /\ applied.result.Rate = (<<1, 0>> :> RateLimit + 1 @@ <<10, 0>> :> 1)
    /\ applied.file.Bots = (<<1, 1>> :> TRUE)
    /\ applied.memory.Bots = (<<1, 1>> :> FALSE @@ <<1, 2>> :> FALSE)
    /\ applied.result.Bots = (<<1, 1>> :> FALSE @@ <<1, 2>> :> FALSE)

\* reconcileStates with the arguments of this state the other way round.
Swapped == reconcileStates(applied.memory, applied.file)

\* Some key of both maps has different values in them.
Conflict(f, m) == \E k \in DOMAIN f \cap DOMAIN m : f[k] # m[k]

\* C14 -- Reconciliation is commutative, as the specification words it: the
\* rate, bot and verified maps of reconcileStates(A, B) equal those of
\* reconcileStates(B, A) for all snapshots A and B, different boolean values
\* for one key included.
C14_Commutative ==
    Reconciled =>
        /\ applied.result.Rate = Swapped.Rate
        /\ applied.result.Bots = Swapped.Bots
        /\ applied.result.Verified = Swapped.Verified

\* C14, where the snapshots agree.  The rate map of reconcileStates(A, B)
\* equals that of reconcileStates(B, A) for all snapshots; the bot map and the
\* verified map are the same in both orders exactly when A and B hold no
\* different values for one key, and otherwise each order keeps the value of
\* its second argument.
C14_CommutativeWhereAgreed ==
    Reconciled =>
        /\ applied.result.Rate = Swapped.Rate
        /\ (applied.result.Bots = Swapped.Bots)
              <=> ~Conflict(applied.file.Bots, applied.memory.Bots)
        /\ (applied.result.Verified = Swapped.Verified)
              <=> ~Conflict(applied.file.Verified, applied.memory.Verified)
        /\ \A k \in DOMAIN applied.file.Bots \cap DOMAIN applied.memory.Bots :
              applied.result.Bots[k] = applied.memory.Bots[k] /\ Swapped.Bots[k] = applied.file.Bots[k]

\* Two snapshots with different counts for one subnet, the same verdict for
\* one address and a key each that the other lacks reconcile to the same maps
\* in both orders.
C14_Witness ==
    /\ Reconciled
    /\ applied.file.Rate = (<<1, 0>> :> RateLimit + 1)
    /\ applied.memory.Rate = (<<1, 0>> :> 1 @@ <<10, 0>> :> 1)
    /\ applied.file.Bots = (<<1, 1>> :> TRUE @@ <<1, 2>> :> FALSE)
    /\ applied.memory.Bots = (<<1, 1>> :> TRUE)
    /\ applied.result = Swapped

\* C15 -- No under-counting across processes.  Whatever way the saves of two
\* processes interleave, no write of the state file leaves a subnet with a
\* lower count than the file held before it, or without one.
C15_NeverUndercounts ==
    [][\A k \in DOMAIN disk.Rate :
          k \in DOMAIN disk'.Rate /\ disk'.Rate[k] >= disk.Rate[k]]_vars

\* Process p has read the file's snapshot for a save and not yet written.
HasRead(p) == saver[p].pc \in {"between", "wlock", "wheld"}

\* Process p writes the state file in this step.
Writes(p) == saver[p].pc = "wheld" /\ saver'[p].pc = "idle"

\* C20 -- Atomic save cycle.  From the read of the file's snapshot to the
\* write of the reconciled one a saving process holds the file lock, and no
\* other process writes the state file in between.
C20_AtomicSaveCycle ==
    [][/\ \A p \in Pair : HasRead(p) \/ saver[p].pc = "rheld" => acquired[p]
       /\ \A p \in Pair, q \in Pair : Writes(q) /\ p # q => ~HasRead(p)]_vars

\* C16 -- Shutdown save: once the context is cancelled, the goroutine begins
\* no save for a state-change signal any more, not even for one that was
\* pending at the cancellation; the only save it begins is the final one, so
\* a goroutine that has exited after the cancellation has begun exactly one.
C16_ShutdownSave ==
    [][/\ task.cancelled /\ task.pc = "select" => task'.pc \in {"select", "final"}
       /\ task'.pc = "exited" /\ task.pc = "final" => task'.after = 1]_vars

\* The new instance holds, after the load, exactly the entries of cache c
\* that were live: the same keys with the same values.
SameEntries(loaded, c) ==
    \A k \in DOMAIN c :
        /\ Live(loaded[k]) <=> Live(c[k])
        /\ Live(c[k]) => loaded[k].v = c[k].v

\* C17 -- Round trip of the persisted state: after a save into an empty or
\* absent state file and the load of that file into a new instance, the new
\* instance holds exactly the live rate, bot and verified entries the saving
\* instance held at the save, with their values.
C17_RoundTrip ==
    (applied.fn = "roundtrip" /\ applied.stage = "loaded") =>
        /\ SameEntries(applied.result.rate, rateCache)
        /\ SameEntries(applied.result.bot, botCache)
        /\ SameEntries(applied.result.ver, verifiedCache)

\* A load after a save of an instance that held a count above the limit, a
\* negative bot verdict and a verified client, and lost an entry to expiry.
C17_Witness ==
    /\ applied.fn = "roundtrip"
    /\ applied.stage = "loaded"
    /\ sinceReload = 1
    /\ applied.result.rate[<<1, 0>>].v = MaxCount
    /\ ~Live(applied.result.rate[<<10, 0>>])
    /\ Live(applied.result.bot[<<1, 1>>]) /\ ~applied.result.bot[<<1, 1>>].v
    /\ Live(applied.result.ver[<<1, 2>>])
    /\ ~Live(applied.result.ver[<<1, 1>>])

\* One hour, in ticks: the interval of the sweep of the bot and of the
\* verified cache (main.go:218-219).
Hour == 4

\* A step in which a tick passes and no request is handled.
Ticking == out = NoOut /\ out' = NoOut

\* Over the step, the entries of cache c live by a lifetime of n ticks from
\* when they were last set: a new entry starts with n ticks, a tick takes one
\* from every entry and removes the entries that have none left, and a
\* request leaves an entry its ticks or sets it anew.
LivesFor(n, c, after) ==
    \A k \in DOMAIN c :
        /\ ~Live(c[k]) /\ Live(after[k]) => after[k].ttl = n
        /\ Ticking /\ Live(c[k]) =>
              IF c[k].ttl = 0 THEN ~Live(after[k]) ELSE after[k].ttl = c[k].ttl - 1
        /\ ~Ticking /\ Live(c[k]) =>
              Live(after[k]) /\ after[k].ttl \in {c[k].ttl, n}

\* The ticks an entry of the bot or of the verified cache has lived.
Age(e) == Window - e.ttl

\* C18 as stated -- Cache lifetimes: an entry of the bot cache or of the
\* verified cache lives for one hour whatever the window is, so it is gone
\* only once it is an hour old.
C18_HourLifetimes ==
    [][\A ip \in IPs :
          /\ Live(botCache[ip]) /\ ~Live(botCache'[ip]) => Age(botCache[ip]) >= Hour
          /\ Live(verifiedCache[ip]) /\ ~Live(verifiedCache'[ip]) =>
                Age(verifiedCache[ip]) >= Hour]_vars

\* C18 -- Cache lifetimes: the entries of the rate cache, of the bot cache
\* and of the verified cache all live for the configured window from when
\* they were last set.
C18_WindowLifetimes ==
    [][/\ LivesFor(Window, rateCache, rateCache')
       /\ LivesFor(Window, botCache, botCache')
       /\ LivesFor(Window, verifiedCache, verifiedCache')]_vars

\* A bot verdict and a verified client in the last tick of their window,
\* next to a counter set later.
C18_Witness ==
    /\ Live(botCache[<<1, 1>>]) /\ botCache[<<1, 1>>].ttl = 0
    /\ Live(verifiedCache[<<1, 1>>]) /\ verifiedCache[<<1, 1>>].ttl = 0
    /\ Live(rateCache[<<1, 0>>]) /\ rateCache[<<1, 0>>].ttl = Window

\* C19 -- Window expiry of a rate counter: a counter a request created is
\* absent once a window has passed since, whatever increments, saves and
\* reloads happened in between.
C19_WindowExpiry ==
    \A k \in Subnets :
        (applied.fn = "window" /\ applied.age[k] > Window) => ~Live(rateCache[k])

\* C21 -- Lock timeout skips the save: a save cycle whose read of the file
\* could not take the file lock writes nothing; no step of that cycle changes
\* the state file.
C21_FailedReadSkipsSave ==
    [][\A p \in Pair :
          saver[p].read = "failed" /\ saver'[p] # saver[p] => disk' = disk]_vars

\* C22 -- Coalescing signal: at most one state-change signal is pending at
\* any time, and a request handled while a signal is pending returns with
\* that one signal still pending: its notifications neither wait nor add a
\* second one.
C22_CoalescingSignal ==
    [][/\ stateChanged \in 0..ChannelDepth
       /\ stateChanged' \in 0..ChannelDepth
       /\ Served /\ stateChanged = ChannelDepth => stateChanged' = ChannelDepth]_vars

\* The second request of a subnet has been registered with the signal of the
\* first still pending: nothing has been saved.
C22_Witness ==
    /\ out # NoOut /\ out.registered
    /\ rateCache[<<1, 0>>].v = 2
    /\ stateChanged = ChannelDepth
    /\ disk = EmptyState

\* The goroutine saveStateOnChange is in its loop.
Running == task.pc \in {"select", "signal", "final"}

C27_EmptyReloadNoOp ==
    (/\ applied.fn = "reloadStateFromFile"
     /\ applied.done
     /\ (disk = EmptyState \/ ~applied.lockOK)) =>
        /\ applied.result.rate = rateCache
        /\ applied.result.bot = botCache
        /\ applied.result.ver = verifiedCache

\* A reload that did not get the file's content, on an instance with a
\* counter and a verified mark in their last tick, next to a file a sibling
\* has written.
C27_Witness ==
    /\ applied.fn = "reloadStateFromFile"
    /\ applied.done
    /\ ~applied.lockOK
    /\ disk # EmptyState
    /\ rateCache[<<1, 0>>] = [v |-> 1, ttl |-> 0]
    /\ verifiedCache[<<1, 1>>] = [v |-> TRUE, ttl |-> 0]
    /\ applied.result.rate[<<1, 0>>] = [v |-> 1, ttl |-> 0]

\* C24 -- At most one reload per 5-second boundary: the timestamps of any two
\* requests that called reloadStateFromFile are at least the reload interval
\* apart.
C24_OneReloadPerInterval ==
    \A a \in DOMAIN sync.stamps, b \in DOMAIN sync.stamps :
        a < b => sync.stamps[b] - sync.stamps[a] >= ReloadTicks

\* Two requests passed the first check on the same lastReload; the one has
\* called reloadStateFromFile and still runs it, the other was turned away
\* by the second check.
C24_Witness ==
    /\ sync.th # <<>>
    /\ sync.th[1].pc = "reloading"
    /\ sync.th[2].refused
    /\ sync.th[2].seen = sync.th[1].seen
    /\ sync.th[2].now = sync.th[1].now
    /\ Len(sync.stamps) = 1

\* Goroutine u holds stateMutex and is inside a Lock() call of the file
\* lock, which the sibling process holds.
WaitsForFileLock(u) ==
    /\ sync.mutex = u
    /\ saver[u].pc \in {"rlock", "wlock"}
    /\ pc[u] \in {"stat", "sleep"}
    /\ acquired[Sibling] /\ marker.pid = Sibling

\* C25 -- The cheap reload check does not wait on the file lock: a request
\* for which no reload is due is never held up at the read lock by a save or
\* a reload that waits for the file lock.
C25_CheapCheck ==
    \A t \in Goroutines :
        (/\ sync.th # <<>>
         /\ sync.th[t].pc = "check"
         /\ ~Due(sync.clock, sync.last)) =>
            ~ \E u \in Goroutines : WaitsForFileLock(u)

\* C30 -- Lock nesting: a goroutine is inside a Lock() call of the file lock
\* or holds the file lock only while it holds stateMutex for writing, so
\* stateMutex is given up with every file lock released; the holder of
\* stateMutex is never one that waits for stateMutex, and a goroutine that
\* found the file lock taken never found it taken by its own process.
C30_LockNesting ==
    sync.th # <<>> =>
        \A t \in Goroutines :
            /\ (acquired[t] \/ pc[t] # "idle") => sync.mutex = t
            /\ sync.mutex = t => sync.th[t].pc \in {"reloading", "saving"}
            /\ (pc[t] \in {"stat", "remove", "sleep"} /\ Exists(marker)) =>
                  marker.pid \notin Goroutines

\* The save holds the file lock for its write, under stateMutex, while a
\* request waits at the read lock and the sibling has just found the file
\* lock taken.
C30_Witness ==
    /\ sync.th # <<>>
    /\ sync.mutex = 2
    /\ saver[2].pc = "wheld"
    /\ acquired[2]
    /\ sync.th[1].pc = "check"
    /\ ev.p = Sibling /\ ev.res = "held"

\* No goroutine is inside reloadStateFromFile.
NoReload == \A t \in Goroutines : sync.th[t].pc # "reloading"

\* C26 -- In-memory rate count under concurrency: whenever no reload is
\* under way, the counter of a subnet is there and is at least the number of
\* requests registered for the subnet in the window.
C26_NoRegistrationLost ==
    (applied.fn = "race" /\ NoReload) =>
        \A k \in Subnets :
            applied.registered[k] > 0 =>
                Live(rateCache[k]) /\ rateCache[k].v >= applied.registered[k]

\* C28 -- Enforcement is sticky within the window: a request that arrived
\* after the counter of its subnet had exceeded the limit, and that
\* shouldApply accepted, is not passed to the next handler.
C28_StickyEnforcement ==
    [][applied.fn = "race" =>
          \A t \in Goroutines :
              (/\ sync.th[t].pc = "answer"
               /\ sync'.th[t].pc = "idle"
               /\ sync.th[t].over) => sync'.th[t].by # "next"]_vars

\* C29 -- A verification is not lost to a reload: whenever no reload is
\* under way, a client a successful verification has marked is in the
\* verified cache.
C29_MarkSurvivesReload ==
    (applied.fn = "race" /\ NoReload) =>
        \A ip \in IPs : applied.marked[ip] => Live(verifiedCache[ip])

==============================================================================
